---- MODULE Spec2Model ----
(***************************************************************************)
(* EzShareCLI transfer pipeline: the chunked AES-256-GCM stream codec      *)
(* (utils/crypto.ts) and the flag-framed compression codec                 *)
(* (utils/compression.ts), as state machines of their Transform streams.   *)
(*                                                                         *)
(* Bytes are integers 0..255.  The field sizes of the wire format are      *)
(* scaled down so that every layout case (a field split across writes, a   *)
(* full chunk, a short final chunk, several chunks in one write) occurs    *)
(* within a few bytes; the source values are given beside each.            *)
(***************************************************************************)
EXTENDS Integers, Sequences, FiniteSets, TLC

(* ---------------------------------------------------------------------- *)
(* Program constants (utils/crypto.ts), scaled.                            *)
(* ---------------------------------------------------------------------- *)
\* source: 64 * 1024
CHUNK_SIZE == 2
\* source: 4
NONCE_PREFIX_SIZE == 2
\* source: 12 (4 prefix + 8 counter); here 2 prefix + 1 counter
NONCE_SIZE == 3
\* source: 16
TAG_SIZE == 2
\* source: 4 (uint32 big-endian); here uint16 big-endian
LENGTH_SIZE == 2
\* utils/compression.ts protocol flags
FLAG_RAW == 0
FLAG_COMPRESSED == 1

\* `null` of the source (chunkLength: number | null)
NULL == -1

(* ---------------------------------------------------------------------- *)
(* Bounds of the model.                                                    *)
(* ---------------------------------------------------------------------- *)
\* longest plaintext given to one encrypt stream
MaxPlain == 5

\* AES keys, as abstract key identities
Keys == {1, 2}
\* values randomBytes(NONCE_PREFIX_SIZE) may return
Prefixes == {<<0, 0>>, <<165, 90>>}
\* plaintexts: byte[i] = i mod 256 (the pattern of the source's tests) and all-zero
\* bytes, of every length 0..MaxPlain
Plaintexts ==
  {[i \in 1..n |-> i % 256] : n \in 0..MaxPlain} \cup {[i \in 1..n |-> 0] : n \in 0..MaxPlain}
\* bits of a byte
Bits == 0..7

(* ---------------------------------------------------------------------- *)
(* Byte helpers.                                                           *)
(* ---------------------------------------------------------------------- *)
RECURSIVE Pow(_, _)
Pow(b, e) == IF e = 0 THEN 1 ELSE b * Pow(b, e - 1)

\* Buffer.subarray(from) / Buffer.subarray(0, n), 0-based as in the source
Take(s, n) == SubSeq(s, 1, n)
Drop(s, n) == SubSeq(s, n + 1, Len(s))

\* Buffer.writeUInt32BE / writeBigUInt64BE: big-endian, `size` bytes
RECURSIVE UIntBE(_, _)
UIntBE(n, size) ==
  IF size = 0 THEN <<>>
  ELSE Append(UIntBE(n \div 256, size - 1), n % 256)

\* Buffer.readUInt32BE(0): big-endian value of the first `size` bytes
RECURSIVE ReadUIntBE(_, _)
ReadUIntBE(s, size) ==
  IF size = 0 THEN 0
  ELSE ReadUIntBE(s, size - 1) * 256 + s[size]

\* the byte b with bit k inverted
FlipBit(b, k) ==
  IF (b \div Pow(2, k)) % 2 = 1 THEN b - Pow(2, k) ELSE b + Pow(2, k)

Zeros(n) == [i \in 1..n |-> 0]

\* Buffer.concat
RECURSIVE Concat(_)
Concat(ss) == IF ss = <<>> THEN <<>> ELSE Head(ss) \o Concat(Tail(ss))

(* ---------------------------------------------------------------------- *)
(* AES-256-GCM (node:crypto), as a keyed stream cipher with a keyed tag.   *)
(* The tag is a polynomial hash of key, nonce and ciphertext: changing any *)
(* one of them changes the tag.                                            *)
(* ---------------------------------------------------------------------- *)
RECURSIVE Fold(_, _)
Fold(s, h) ==
  IF s = <<>> THEN h
  ELSE Fold(Tail(s), (h * 251 + Head(s) + 1) % 65521)

\* cipher.getAuthTag(): TAG_SIZE bytes
GcmTag(key, nonce, ciphertext) ==
  UIntBE(Fold(<<key>> \o nonce \o <<Len(ciphertext)>> \o ciphertext, 1), TAG_SIZE)

\* CTR keystream byte i (1-based) under key and nonce
Keystream(key, nonce, i) == (Fold(<<key>> \o nonce, 7) + 13 * i) % 256

\* cipher.update(plaintext) ++ cipher.final()
GcmEncrypt(key, nonce, plaintext) ==
  [i \in 1..Len(plaintext) |-> (plaintext[i] + Keystream(key, nonce, i)) % 256]

\* decipher.update(ciphertext): the plaintext, before the tag is checked
GcmDecrypt(key, nonce, ciphertext) ==
  [i \in 1..Len(ciphertext) |-> (ciphertext[i] + 256 - Keystream(key, nonce, i)) % 256]

\* decipher.final(): passes iff the tag set by setAuthTag is the tag of the data
GcmVerify(key, nonce, ciphertext, tag) == GcmTag(key, nonce, ciphertext) = tag

(* ---------------------------------------------------------------------- *)
(* crypto.ts: makeNonce, encryptChunk, decryptChunk.                       *)
(* ---------------------------------------------------------------------- *)
\* a counter that is never refused
AlwaysFits(counter) == TRUE

\* the nonce of chunk 0 for every chunk
makeNonceOfFirst(prefix, counter) ==
  Take(prefix, NONCE_PREFIX_SIZE) \o [i \in 1..(NONCE_SIZE - NONCE_PREFIX_SIZE) |-> 0]

\* writeBigUInt64BE throws a RangeError when the counter does not fit
CounterFits(counter) == counter < Pow(256, NONCE_SIZE - NONCE_PREFIX_SIZE)

makeNonce(prefix, counter) ==
  Take(prefix, NONCE_PREFIX_SIZE) \o UIntBE(counter, NONCE_SIZE - NONCE_PREFIX_SIZE)

\* [length][ciphertext][tag]
encryptChunk(key, noncePrefix, counter, plaintext) ==
  LET nonce == makeNonce(noncePrefix, counter)
      ciphertext == GcmEncrypt(key, nonce, plaintext)
  IN  UIntBE(Len(plaintext), LENGTH_SIZE) \o ciphertext \o GcmTag(key, nonce, ciphertext)

\* the plaintext, or a thrown authentication error
decryptChunkSkipsFinal(key, noncePrefix, counter, ciphertext, tag) ==
  [ok |-> TRUE, plaintext |-> GcmDecrypt(key, makeNonce(noncePrefix, counter), ciphertext)]

decryptChunk(key, noncePrefix, counter, ciphertext, tag) ==
  LET nonce == makeNonce(noncePrefix, counter)
  IN  IF GcmVerify(key, nonce, ciphertext, tag)
      THEN [ok |-> TRUE, plaintext |-> GcmDecrypt(key, nonce, ciphertext)]
      ELSE [ok |-> FALSE, plaintext |-> <<>>]

(* ---------------------------------------------------------------------- *)
(* createEncryptStream: the closure state and its transform / flush.       *)
(* `out` is everything pushed so far; `err` the error given to callback;   *)
(* `emitted` logs, per pushed chunk, the counter and the nonce it used.    *)
(* ---------------------------------------------------------------------- *)
NewEncryptStream(key, prefix) ==
  [key |-> key, noncePrefix |-> prefix, counter |-> 0, buffer |-> <<>>,
   headerSent |-> FALSE, out |-> <<>>, err |-> "none", emitted |-> <<>>]

\* one encryptChunk call inside the try block
EncEmit(e, plaintext, rest, bump) ==
  IF ~CounterFits(e.counter)
  THEN [e EXCEPT !.buffer = rest, !.err = "range"]
  ELSE [e EXCEPT !.buffer = rest,
                 !.counter = IF bump THEN @ + 1 ELSE @,
                 !.out = @ \o encryptChunk(e.key, e.noncePrefix, e.counter, plaintext),
                 !.emitted = Append(@, [counter |-> e.counter,
                                        nonce |-> makeNonce(e.noncePrefix, e.counter)])]

\* while (buffer.length >= CHUNK_SIZE) { ... }
RECURSIVE EncLoop(_)
EncLoop(e) ==
  IF e.err = "none" /\ Len(e.buffer) >= CHUNK_SIZE
  THEN EncLoop(EncEmit(e, Take(e.buffer, CHUNK_SIZE), Drop(e.buffer, CHUNK_SIZE), TRUE))
  ELSE e

\* the loop written as a single `if`
EncLoopOnce(e) ==
  IF e.err = "none" /\ Len(e.buffer) >= CHUNK_SIZE
  THEN EncEmit(e, Take(e.buffer, CHUNK_SIZE), Drop(e.buffer, CHUNK_SIZE), TRUE)
  ELSE e

EncTransformNoLoop(e, chunk) ==
  LET h == IF e.headerSent THEN e
           ELSE [e EXCEPT !.out = @ \o e.noncePrefix, !.headerSent = TRUE]
  IN  EncLoopOnce([h EXCEPT !.buffer = @ \o chunk])

EncTransform(e, chunk) ==
  LET h == IF e.headerSent THEN e
           ELSE [e EXCEPT !.out = @ \o e.noncePrefix, !.headerSent = TRUE]
  IN  EncLoop([h EXCEPT !.buffer = @ \o chunk])

\* flush without the residual chunk
EncFlushDropsResidual(e) == [e EXCEPT !.out = @ \o Zeros(LENGTH_SIZE)]

EncFlush(e) ==
  LET r == IF Len(e.buffer) > 0 THEN EncEmit(e, e.buffer, e.buffer, FALSE) ELSE e
  IN  IF r.err = "none" THEN [r EXCEPT !.out = @ \o Zeros(LENGTH_SIZE)] ELSE r

(* ---------------------------------------------------------------------- *)
(* createDecryptStream: the closure state and its transform.               *)
(* `emitted` logs, per pushed plaintext, the chunk it was decrypted from;  *)
(* `trailing` counts the input bytes received after the end marker.        *)
(* ---------------------------------------------------------------------- *)
NewDecryptStream(key) ==
  [key |-> key, noncePrefix |-> <<>>, counter |-> 0, buffer |-> <<>>,
   chunkLength |-> NULL, ended |-> FALSE, out |-> <<>>, err |-> "none",
   emitted |-> <<>>, trailing |-> 0]

\* Phase 2 written as a single `if`: one chunk per transform call
DecLoopOnce(d) ==
  IF d.chunkLength = NULL /\ Len(d.buffer) < LENGTH_SIZE THEN d
  ELSE
    LET l == IF d.chunkLength = NULL
             THEN [d EXCEPT !.chunkLength = ReadUIntBE(d.buffer, LENGTH_SIZE),
                            !.buffer = Drop(d.buffer, LENGTH_SIZE)]
             ELSE d
        neededBytes == l.chunkLength + TAG_SIZE
    IN  IF d.chunkLength = NULL /\ l.chunkLength = 0
        THEN [l EXCEPT !.ended = TRUE, !.trailing = Len(l.buffer)]
        ELSE IF Len(l.buffer) < neededBytes THEN l
        ELSE
          LET ciphertext == Take(l.buffer, l.chunkLength)
              tag == SubSeq(l.buffer, l.chunkLength + 1, neededBytes)
              r == decryptChunk(l.key, l.noncePrefix, l.counter, ciphertext, tag)
              b == [l EXCEPT !.buffer = Drop(l.buffer, neededBytes)]
          IN  IF ~r.ok THEN [b EXCEPT !.err = "auth"]
              ELSE [b EXCEPT
                     !.counter = @ + 1,
                     !.chunkLength = NULL,
                     !.out = @ \o r.plaintext,
                     !.emitted = Append(@, [counter |-> l.counter,
                                            ciphertext |-> ciphertext,
                                            tag |-> tag,
                                            plaintext |-> r.plaintext])]

\* Phase 2 of transform: while (!ended) { ... }
RECURSIVE DecLoop(_)
DecLoop(d) ==
  IF d.chunkLength = NULL /\ Len(d.buffer) < LENGTH_SIZE THEN d
  ELSE
    LET l == IF d.chunkLength = NULL
             THEN [d EXCEPT !.chunkLength = ReadUIntBE(d.buffer, LENGTH_SIZE),
                            !.buffer = Drop(d.buffer, LENGTH_SIZE)]
             ELSE d
        neededBytes == l.chunkLength + TAG_SIZE
    IN  IF d.chunkLength = NULL /\ l.chunkLength = 0
        THEN [l EXCEPT !.ended = TRUE, !.trailing = Len(l.buffer)]
        ELSE IF Len(l.buffer) < neededBytes THEN l
        ELSE
          LET ciphertext == Take(l.buffer, l.chunkLength)
              tag == SubSeq(l.buffer, l.chunkLength + 1, neededBytes)
              r == decryptChunk(l.key, l.noncePrefix, l.counter, ciphertext, tag)
              b == [l EXCEPT !.buffer = Drop(l.buffer, neededBytes)]
          IN  IF ~r.ok THEN [b EXCEPT !.err = "auth"]
              ELSE DecLoop([b EXCEPT
                     !.counter = @ + 1,
                     !.chunkLength = NULL,
                     !.out = @ \o r.plaintext,
                     !.emitted = Append(@, [counter |-> l.counter,
                                            ciphertext |-> ciphertext,
                                            tag |-> tag,
                                            plaintext |-> r.plaintext])])

DecTransform(d, chunk) ==
  IF d.ended THEN [d EXCEPT !.trailing = @ + Len(chunk)]
  ELSE
    LET a == [d EXCEPT !.buffer = @ \o chunk]
    IN  IF a.noncePrefix = <<>>
        THEN IF Len(a.buffer) < NONCE_PREFIX_SIZE THEN a
             ELSE DecLoop([a EXCEPT !.noncePrefix = Take(a.buffer, NONCE_PREFIX_SIZE),
                                    !.buffer = Drop(a.buffer, NONCE_PREFIX_SIZE)])
        ELSE DecLoop(a)

(* ---------------------------------------------------------------------- *)
(* Zstandard (@skhaz/zstd compressStream), a lossless streaming coder: the *)
(* frame is a header byte, one block (a mark and a coded byte) per input   *)
(* byte and a trailer byte; what it has emitted is always a prefix of the  *)
(* frame of its input. Whether ending it without input yields an (empty)   *)
(* frame or no data at all is the library's choice, fixed per stream in    *)
(* `emptyFrame`.                                                           *)
(* ---------------------------------------------------------------------- *)
ZstdHeader == <<40>>
ZstdBlockMark == <<1>>
ZstdTrailer == <<253>>
ZstdCode(b) == (b + 128) % 256

ZstdFrameSoFar(z) ==
  IF z.input = <<>> /\ ~(z.ending /\ z.emptyFrame) THEN <<>>
  ELSE ZstdHeader
         \o [i \in 1..(2 * Len(z.input)) |->
               IF i % 2 = 1 THEN ZstdBlockMark[1] ELSE ZstdCode(z.input[i \div 2])]
         \o (IF z.ending THEN ZstdTrailer ELSE <<>>)

NewZstdStream(emptyFrame) ==
  [input |-> <<>>, emitted |-> 0, ending |-> FALSE, ended |-> FALSE,
   emptyFrame |-> emptyFrame]

(* ---------------------------------------------------------------------- *)
(* compression.ts: createFlagPrepender and createCompressStream.           *)
(* `out` is everything pushed so far and `kinds` says, byte by byte,       *)
(* whether the push was the flag or payload.                               *)
(* ---------------------------------------------------------------------- *)
NewCompressStream(shouldCompress) ==
  [enabled |-> shouldCompress, flagSent |-> FALSE, wrapperEnded |-> FALSE,
   awaitingDrain |-> FALSE, out |-> <<>>, kinds |-> <<>>, err |-> "none"]

Push(c, bytes, kind) ==
  [c EXCEPT !.out = @ \o bytes, !.kinds = @ \o [i \in 1..Len(bytes) |-> kind]]

\* createFlagPrepender(flag).transform
FlagPrependerTransform(c, flag, chunk) ==
  LET f == IF c.flagSent THEN c
           ELSE [Push(c, <<flag>>, "flag") EXCEPT !.flagSent = TRUE]
  IN  Push(f, chunk, "payload")

\* a handler that marks what it forwards as raw
ZstdDataHandlerRawFlag(c, chunk) == FlagPrependerTransform(c, FLAG_RAW, chunk)

\* zstdStream.on('data', ...) of createCompressStream
ZstdDataHandler(c, chunk) ==
  LET f == IF c.flagSent THEN c
           ELSE [Push(c, <<FLAG_COMPRESSED>>, "flag") EXCEPT !.flagSent = TRUE]
  IN  Push(f, chunk, "payload")

\* zstdStream.once('end', ...) registered by the wrapper's flush
ZstdEndHandler(c) ==
  IF c.wrapperEnded THEN c
  ELSE LET w == [c EXCEPT !.wrapperEnded = TRUE]
       IN  IF w.flagSent THEN w ELSE Push(w, <<FLAG_COMPRESSED>>, "flag")

(* ---------------------------------------------------------------------- *)
(* Zstandard (@skhaz/zstd decompressStream), the inverse coder. What it    *)
(* has decoded is a function of the bytes written to it; no input at all   *)
(* decodes to nothing. A wrong header, a wrong block mark or bytes after   *)
(* the trailer make it fail. Whether ending it in the middle of a frame is *)
(* an error or a quiet end is the library's choice, fixed per stream in    *)
(* `lenient`.                                                              *)
(* ---------------------------------------------------------------------- *)
ZstdUncode(c) == (c + 128) % 256

RECURSIVE ZstdBlocks(_, _)
ZstdBlocks(bytes, acc) ==
  IF bytes = <<>> THEN [out |-> acc, complete |-> FALSE, bad |-> FALSE]
  ELSE IF Head(bytes) = ZstdTrailer[1]
       THEN [out |-> acc, complete |-> TRUE, bad |-> Len(bytes) > 1]
  ELSE IF Head(bytes) # ZstdBlockMark[1]
       THEN [out |-> acc, complete |-> FALSE, bad |-> TRUE]
  ELSE IF Len(bytes) < 2 THEN [out |-> acc, complete |-> FALSE, bad |-> FALSE]
  ELSE ZstdBlocks(Drop(bytes, 2), Append(acc, ZstdUncode(bytes[2])))

ZstdDecoded(input) ==
  IF input = <<>> THEN [out |-> <<>>, complete |-> TRUE, bad |-> FALSE]
  ELSE IF Head(input) # ZstdHeader[1]
       THEN [out |-> <<>>, complete |-> FALSE, bad |-> TRUE]
  ELSE ZstdBlocks(Tail(input), <<>>)

NewUnzstdStream(lenient) ==
  [input |-> <<>>, emitted |-> 0, ending |-> FALSE, ended |-> FALSE,
   lenient |-> lenient]

(* ---------------------------------------------------------------------- *)
(* compression.ts: createDecompressStream. `toZstd` is what the transform  *)
(* writes to the Zstandard stream it created.                              *)
(* ---------------------------------------------------------------------- *)
NewDecompressStream ==
  [flag |-> NULL, hasZstd |-> FALSE, buffer |-> <<>>, destroyed |-> FALSE,
   awaitingDrain |-> FALSE, out |-> <<>>, err |-> "none"]

DecompressProcessSkipsRaw(d, buffer) ==
  IF buffer = <<>> THEN [d |-> [d EXCEPT !.buffer = <<>>], toZstd |-> <<>>]
  ELSE IF d.flag = FLAG_COMPRESSED /\ d.hasZstd
       THEN [d |-> [d EXCEPT !.buffer = <<>>], toZstd |-> buffer]
  ELSE [d |-> [d EXCEPT !.buffer = buffer], toZstd |-> <<>>]

\* the "Process buffered data" part of transform
DecompressProcess(d, buffer) ==
  IF buffer = <<>> THEN [d |-> [d EXCEPT !.buffer = <<>>], toZstd |-> <<>>]
  ELSE IF d.flag = FLAG_COMPRESSED /\ d.hasZstd
       THEN [d |-> [d EXCEPT !.buffer = <<>>], toZstd |-> buffer]
  ELSE IF d.flag = FLAG_RAW
       THEN [d |-> [d EXCEPT !.buffer = <<>>, !.out = @ \o buffer], toZstd |-> <<>>]
  ELSE [d |-> [d EXCEPT !.buffer = buffer], toZstd |-> <<>>]

AnyFlag(flag) == TRUE

\* the flag validation of transform
ValidFlag(flag) == flag = FLAG_RAW \/ flag = FLAG_COMPRESSED

\* wrapper.transform(chunk); callback(err) destroys the stream, which runs
\* the wrapper's destroy
DecompressTransform(d, chunk) ==
  IF d.destroyed THEN [d |-> d, toZstd |-> <<>>]
  ELSE LET buffer == d.buffer \o chunk
       IN  IF d.flag # NULL THEN DecompressProcess(d, buffer)
           ELSE IF Len(buffer) < 1 THEN [d |-> [d EXCEPT !.buffer = buffer], toZstd |-> <<>>]
           ELSE LET flag == Head(buffer)
                    rest == Tail(buffer)
                    f    == [d EXCEPT !.flag = flag, !.buffer = rest]
                IN  IF ~ValidFlag(flag)
                    THEN [d |-> [f EXCEPT !.err = "flag", !.destroyed = TRUE],
                          toZstd |-> <<>>]
                    ELSE IF flag = FLAG_COMPRESSED
                    THEN [d |-> [f EXCEPT !.hasZstd = TRUE, !.buffer = <<>>],
                          toZstd |-> rest]
                    ELSE DecompressProcess(f, rest)

(* ---------------------------------------------------------------------- *)
(* compression.ts: shouldCompress. A path is a sequence of characters;     *)
(* extname is node:path's (POSIX): the last portion of the path from its   *)
(* last '.', empty when that portion has no '.' other than a leading one   *)
(* or is '..'.                                                             *)
(* ---------------------------------------------------------------------- *)
MaxPath == 5
PathChars == {"g", "z", "G", "Z", ".", "/"}

COMPRESSED_EXTENSIONS ==
  {<<".", "z", "i", "p">>, <<".", "g", "z">>, <<".", "b", "z", "2">>,
   <<".", "x", "z">>, <<".", "7", "z">>, <<".", "r", "a", "r">>,
   <<".", "z", "s", "t">>, <<".", "l", "z", "4">>,
   <<".", "l", "z", "m", "a">>, <<".", "t", "g", "z">>,
   <<".", "t", "b", "z", "2">>, <<".", "j", "p", "g">>,
   <<".", "j", "p", "e", "g">>, <<".", "p", "n", "g">>,
   <<".", "g", "i", "f">>, <<".", "w", "e", "b", "p">>,
   <<".", "a", "v", "i", "f">>, <<".", "h", "e", "i", "c">>,
   <<".", "h", "e", "i", "f">>, <<".", "i", "c", "o">>,
   <<".", "m", "p", "4">>, <<".", "m", "k", "v">>, <<".", "a", "v", "i">>,
   <<".", "m", "o", "v">>, <<".", "w", "e", "b", "m">>,
   <<".", "m", "4", "v">>, <<".", "w", "m", "v">>, <<".", "f", "l", "v">>,
   <<".", "m", "2", "t", "s">>, <<".", "m", "p", "3">>,
   <<".", "a", "a", "c">>, <<".", "f", "l", "a", "c">>,
   <<".", "o", "g", "g">>, <<".", "m", "4", "a">>, <<".", "w", "m", "a">>,
   <<".", "o", "p", "u", "s">>, <<".", "p", "d", "f">>,
   <<".", "d", "o", "c", "x">>, <<".", "x", "l", "s", "x">>,
   <<".", "p", "p", "t", "x">>, <<".", "o", "d", "t">>,
   <<".", "o", "d", "s">>, <<".", "o", "d", "p">>,
   <<".", "e", "p", "u", "b">>, <<".", "w", "o", "f", "f">>,
   <<".", "w", "o", "f", "f", "2">>, <<".", "b", "r">>}

toLowerCase(str) ==
  [i \in 1..Len(str) |-> CASE str[i] = "G" -> "g" [] str[i] = "Z" -> "z" [] OTHER -> str[i]]

\* the backwards scan of extname from position i: startDot, end and startPart
\* are positions in the path (0: none yet)
RECURSIVE ExtScan(_, _, _)
ExtScan(path, i, st) ==
  IF i < 1 THEN st
  ELSE IF path[i] = "/"
       THEN IF ~st.matchedSlash THEN [st EXCEPT !.startPart = i + 1]
            ELSE ExtScan(path, i - 1, st)
  ELSE LET e == IF st.end = 0 THEN [st EXCEPT !.matchedSlash = FALSE, !.end = i] ELSE st
       IN  IF path[i] = "."
           THEN ExtScan(path, i - 1,
                        IF e.startDot = 0 THEN [e EXCEPT !.startDot = i]
                        ELSE [e EXCEPT !.preDotState = 1])
           ELSE ExtScan(path, i - 1,
                        IF e.startDot # 0 THEN [e EXCEPT !.preDotState = -1] ELSE e)

extname(path) ==
  LET st == ExtScan(path, Len(path),
                    [startDot |-> 0, startPart |-> 1, end |-> 0,
                     matchedSlash |-> TRUE, preDotState |-> 0])
  IN  IF \/ st.startDot = 0
         \/ st.end = 0
         \/ st.preDotState = 0
         \/ (st.preDotState = 1 /\ st.startDot = st.end /\ st.startDot = st.startPart + 1)
      THEN <<>>
      ELSE SubSeq(path, st.startDot, st.end)

shouldCompress(filePath) == toLowerCase(extname(filePath)) \notin COMPRESSED_EXTENSIONS

(* ---------------------------------------------------------------------- *)
(* crypto.ts: the topic key and its display form. A display key is a       *)
(* sequence of characters. Buffer's 'base64url' encoding writes 6 bits per *)
(* character without padding; its decoding accepts both base64 alphabets,  *)
(* skips every other character and stops at the first '='.                 *)
(* ---------------------------------------------------------------------- *)
KEY_SIZE == 5

Base64Alphabet ==
  <<"A", "B", "C", "D", "E", "F", "G", "H", "I", "J", "K", "L", "M", "N",
    "O", "P", "Q", "R", "S", "T", "U", "V", "W", "X", "Y", "Z", "a", "b",
    "c", "d", "e", "f", "g", "h", "i", "j", "k", "l", "m", "n", "o", "p",
    "q", "r", "s", "t", "u", "v", "w", "x", "y", "z", "0", "1", "2", "3",
    "4", "5", "6", "7", "8", "9", "+", "/">>

Base64UrlAlphabet ==
  <<"A", "B", "C", "D", "E", "F", "G", "H", "I", "J", "K", "L", "M", "N",
    "O", "P", "Q", "R", "S", "T", "U", "V", "W", "X", "Y", "Z", "a", "b",
    "c", "d", "e", "f", "g", "h", "i", "j", "k", "l", "m", "n", "o", "p",
    "q", "r", "s", "t", "u", "v", "w", "x", "y", "z", "0", "1", "2", "3",
    "4", "5", "6", "7", "8", "9", "-", "_">>

RECURSIVE Sextets(_)
Sextets(bytes) ==
  IF bytes = <<>> THEN <<>>
  ELSE IF Len(bytes) = 1 THEN <<bytes[1] \div 4, (bytes[1] % 4) * 16>>
  ELSE IF Len(bytes) = 2
       THEN <<bytes[1] \div 4, (bytes[1] % 4) * 16 + bytes[2] \div 16, (bytes[2] % 16) * 4>>
  ELSE <<bytes[1] \div 4, (bytes[1] % 4) * 16 + bytes[2] \div 16,
         (bytes[2] % 16) * 4 + bytes[3] \div 64, bytes[3] % 64>>
         \o Sextets(Drop(bytes, 3))

\* buf.toString('base64'): the standard alphabet, padded with '='
toStringBase64(bytes) ==
  LET six == Sextets(bytes)
  IN  [i \in 1..Len(six) |-> Base64Alphabet[six[i] + 1]]
        \o [i \in 1..((3 - (Len(bytes) % 3)) % 3) |-> "="]

\* buf.toString('base64url')
toStringBase64Url(bytes) ==
  LET six == Sextets(bytes)
  IN  [i \in 1..Len(six) |-> Base64UrlAlphabet[six[i] + 1]]

\* the value of a character in either alphabet, 64 for any other character
Unbase64(c) ==
  IF \E i \in 1..64 : Base64UrlAlphabet[i] = c
  THEN (CHOOSE i \in 1..64 : Base64UrlAlphabet[i] = c) - 1
  ELSE IF c = "+" THEN 62
  ELSE IF c = "/" THEN 63
  ELSE 64

\* the legal characters of str up to its first '='
RECURSIVE LegalSextets(_)
LegalSextets(str) ==
  IF str = <<>> \/ Head(str) = "=" THEN <<>>
  ELSE IF Unbase64(Head(str)) < 64 THEN <<Unbase64(Head(str))>> \o LegalSextets(Tail(str))
  ELSE LegalSextets(Tail(str))

RECURSIVE Octets(_)
Octets(six) ==
  IF Len(six) < 2 THEN <<>>
  ELSE IF Len(six) = 2 THEN <<six[1] * 4 + six[2] \div 16>>
  ELSE IF Len(six) = 3
       THEN <<six[1] * 4 + six[2] \div 16, (six[2] % 16) * 16 + six[3] \div 4>>
  ELSE <<six[1] * 4 + six[2] \div 16, (six[2] % 16) * 16 + six[3] \div 4,
         (six[3] % 4) * 64 + six[4]>> \o Octets(Drop(six, 4))

\* Buffer.from(str, 'base64url')
BufferFromBase64Url(str) == Octets(LegalSextets(str))

\* generateTopicKey(), for the bytes randomBytes(KEY_SIZE) returned
generateTopicKey(topic) == [topic |-> topic, displayKey |-> toStringBase64Url(topic)]

AnyLength(topic) == TRUE

\* the length check of parseTopicKey
KeyLengthOk(topic) == Len(topic) = KEY_SIZE

\* parseTopicKey(displayKey): ok = FALSE is the thrown 'Invalid key' error
parseTopicKey(displayKey) ==
  LET topic == BufferFromBase64Url(displayKey)
  IN  IF ~KeyLengthOk(topic) THEN [ok |-> FALSE, topic |-> <<>>]
      ELSE [ok |-> TRUE, topic |-> topic]

\* deriveKey(topic): HKDF-SHA256 of the topic; ok = FALSE is the thrown
\* 'Topic must be 32 bytes' error
deriveKey(t) ==
  IF Len(t) # KEY_SIZE THEN [ok |-> FALSE, key |-> NULL]
  ELSE [ok |-> TRUE, key |-> 1 + (Fold(t, 11) % 2)]

(* ---------------------------------------------------------------------- *)
(* network.ts: the rendezvous. `r` is a Hyperswarm handle with what was    *)
(* built around it: whether a 'connection' listener is registered (once),  *)
(* the promise that listener resolves, and the timeout that rejects it.    *)
(* An event emitted while no listener is registered is dropped.            *)
(* ---------------------------------------------------------------------- *)
NewRendezvous ==
  [created |-> FALSE, joined |-> FALSE, listening |-> FALSE, destroyed |-> FALSE,
   promise |-> "none", socket |-> 0, timer |-> "unset", unhandled |-> FALSE]

\* new Promise((resolve, reject) => { setTimeout(...); swarm.once('connection', ...) })
ArmObserver(r) ==
  [r EXCEPT !.promise = "pending", !.timer = "armed", !.listening = TRUE]

\* swarm.join(topic, { server: true, client: true })
JoinTopic(r) == [r EXCEPT !.joined = TRUE]

createSwarmArmsLate(r) == JoinTopic([r EXCEPT !.created = TRUE])

\* createReceiverSwarm(topic) up to its await of swarm.flush()
createReceiverSwarm(r) == JoinTopic(ArmObserver([r EXCEPT !.created = TRUE]))

\* createSenderSwarm(topic) up to its await of discovery.flushed()
createSenderSwarm(r) == JoinTopic([r EXCEPT !.created = TRUE])

\* waitForPeer()
waitForPeer(r) == ArmObserver(r)

\* swarm.emit('connection', socket): the once-listener clears the timeout and
\* resolves the promise, which has no effect on a promise already rejected
EmitConnection(r, socket) ==
  IF ~r.listening THEN r
  ELSE [r EXCEPT !.listening = FALSE,
                 !.timer = IF @ = "armed" THEN "cleared" ELSE @,
                 !.promise = IF @ = "pending" THEN "resolved" ELSE @,
                 !.socket = IF r.promise = "pending" THEN socket ELSE @]

\* the setTimeout callback: reject(new Error('Connection timeout ...')); the
\* rejection is unhandled while nothing awaits the promise yet
TimeoutFires(r, awaited) ==
  [r EXCEPT !.timer = "fired",
            !.promise = IF @ = "pending" THEN "rejected" ELSE @,
            !.unhandled = (r.promise = "pending" /\ ~awaited)]

\* cleanupSwarm(swarm)
cleanupSwarm(r) == [r EXCEPT !.destroyed = TRUE, !.listening = FALSE]

(* ---------------------------------------------------------------------- *)
(* send.tsx / receive.tsx: the session around the rendezvous. `pc` is the  *)
(* await the async function is suspended at.                               *)
(* ---------------------------------------------------------------------- *)
NewSession(role) ==
  [role |-> role, pc |-> "start",
   state |-> (IF role = "send" THEN "init" ELSE "connecting"),
   error |-> "none", key |-> NULL, socket |-> 0,
   completed |-> FALSE, failed |-> FALSE]

\* the catch block of startSending / startReceiving
Catch(ss, message) ==
  [ss EXCEPT !.pc = "returned", !.state = "error", !.error = message, !.failed = TRUE]

(* ---------------------------------------------------------------------- *)
(* Shell.tsx: the shell that mounts SendCommand / ReceiveCommand while its *)
(* mode is 'transfer'. The model starts where the command is mounted.      *)
(* ---------------------------------------------------------------------- *)
NewShell(transferMode) == [mode |-> "transfer", transferMode |-> transferMode]

\* handleTransferComplete, given to the command as onComplete
handleTransferComplete(s) == [s EXCEPT !.mode = "done"]

\* handleTransferError, given to the command as onError
handleTransferError(s) == [s EXCEPT !.mode = "done"]

\* the useInput handler: 'q' leaves the process in command mode, Escape
\* returns to command mode from every mode but 'transfer'
useInput(s, input) ==
  IF input = "q" /\ s.mode = "command" THEN [s EXCEPT !.mode = "exited"]
  ELSE IF input = "escape" /\ s.mode # "transfer" THEN [s EXCEPT !.mode = "command"]
  ELSE s

(* ---------------------------------------------------------------------- *)
(* send.tsx / receive.tsx: the preamble and the two pipelines. The JSON    *)
(* text of the metadata is modelled as bytes: '{', the four values in the  *)
(* order totalSize, fileCount, isDirectory, compressed, separated by ',',  *)
(* and '}' (numbers in decimal digits, booleans as 't' / 'f'); the field   *)
(* names are left out. JSON.stringify never emits a newline byte.          *)
(* ---------------------------------------------------------------------- *)
Newline == <<10>>
Comma == <<44>>
BraceOpen == <<123>>
BraceClose == <<125>>
DigitZero == <<48>>
LetterT == <<116>>
LetterF == <<102>>

RECURSIVE Digits(_)
Digits(n) ==
  IF n < 10 THEN <<DigitZero[1] + n>>
  ELSE Append(Digits(n \div 10), DigitZero[1] + (n % 10))

IsDigits(s) ==
  /\ s # <<>>
  /\ \A i \in 1..Len(s) : s[i] \in DigitZero[1]..(DigitZero[1] + 9)
  /\ Len(s) > 1 => s[1] # DigitZero[1]

RECURSIVE ParseDigits(_)
ParseDigits(s) ==
  IF s = <<>> THEN 0
  ELSE ParseDigits(SubSeq(s, 1, Len(s) - 1)) * 10 + (s[Len(s)] - DigitZero[1])

\* the pieces of `bytes` between the separators
RECURSIVE SplitOn(_, _, _, _)
SplitOn(bytes, sep, cur, acc) ==
  IF bytes = <<>> THEN Append(acc, cur)
  ELSE IF Head(bytes) = sep THEN SplitOn(Tail(bytes), sep, <<>>, Append(acc, cur))
  ELSE SplitOn(Tail(bytes), sep, Append(cur, Head(bytes)), acc)

NoMetadata ==
  [totalSize |-> 0, fileCount |-> 0, isDirectory |-> FALSE, compressed |-> FALSE]

\* the value null, as the metadata that has no member: what transferMetadata
\* holds before a preamble was parsed and what JSON.parse('null') returns
LettersNull == <<110, 117, 108, 108>>
JSONnull ==
  [totalSize |-> NULL, fileCount |-> NULL, isDirectory |-> FALSE, compressed |-> FALSE]

\* if (transferMetadata)
Truthy(m) == m # JSONnull

\* JSON.stringify({ totalSize, fileCount, isDirectory, compressed })
JSONstringify(m) ==
  BraceOpen \o Digits(m.totalSize) \o Comma \o Digits(m.fileCount) \o Comma
    \o (IF m.isDirectory THEN LetterT ELSE LetterF) \o Comma
    \o (IF m.compressed THEN LetterT ELSE LetterF) \o BraceClose

\* JSON.parse(text): the value, or a thrown SyntaxError
JSONparse(text) ==
  IF text = LettersNull THEN [ok |-> TRUE, value |-> JSONnull]
  ELSE IF Len(text) < 2 \/ <<text[1]>> # BraceOpen \/ <<text[Len(text)]>> # BraceClose
  THEN [ok |-> FALSE, value |-> NoMetadata]
  ELSE LET f == SplitOn(SubSeq(text, 2, Len(text) - 1), Comma[1], <<>>, <<>>)
       IN  IF /\ Len(f) = 4
              /\ IsDigits(f[1]) /\ IsDigits(f[2])
              /\ f[3] \in {LetterT, LetterF} /\ f[4] \in {LetterT, LetterF}
           THEN [ok |-> TRUE,
                 value |-> [totalSize |-> ParseDigits(f[1]),
                            fileCount |-> ParseDigits(f[2]),
                            isDirectory |-> (f[3] = LetterT),
                            compressed |-> (f[4] = LetterT)]]
           ELSE [ok |-> FALSE, value |-> NoMetadata]

\* Buffer.indexOf: the first position of the byte, or 0 when it is absent
IndexOf(bytes, b) ==
  IF \E i \in 1..Len(bytes) : bytes[i] = b
  THEN CHOOSE i \in 1..Len(bytes) : bytes[i] = b /\ \A j \in 1..(i - 1) : bytes[j] # b
  ELSE 0

\* the bytes written to the socket, with what wrote them
NewSocket == [bytes |-> <<>>, kinds |-> <<>>, ended |-> FALSE]

SocketWriteFirst(s, bytes, kind) ==
  [s EXCEPT !.bytes = bytes \o @, !.kinds = [i \in 1..Len(bytes) |-> kind] \o @]

\* socket.write(bytes): queued behind everything written before
SocketWrite(s, bytes, kind) ==
  [s EXCEPT !.bytes = @ \o bytes, !.kinds = @ \o [i \in 1..Len(bytes) |-> kind]]

\* Math.round((transferred / totalSize) * 100); NULL stands for Infinity
Percent(transferred, totalSize) ==
  IF totalSize = 0 THEN NULL
  ELSE (200 * transferred + totalSize) \div (2 * totalSize)

\* let transferred = 0; useState(0) for the progress
NewProgressTracker == [transferred |-> 0, progress |-> 0]

\* a tracker that counts the chunks, not their bytes
SendProgressCountsChunks(p, totalSize, chunk) ==
  [transferred |-> p.transferred + 1,
   progress |-> Percent(p.transferred + 1, totalSize)]

\* the sender's progressTracker.transform
SendProgressTransform(p, totalSize, chunk) ==
  [transferred |-> p.transferred + Len(chunk),
   progress |-> Percent(p.transferred + Len(chunk), totalSize)]

\* the receiver's progressTracker.transform: Math.min(pct, 100), and nothing
\* while transferMetadata is null
ReceiveProgressTransform(p, hasMetadata, totalSize, chunk) ==
  IF ~hasMetadata THEN p
  ELSE LET pct == Percent(p.transferred + Len(chunk), totalSize)
       IN  [transferred |-> p.transferred + Len(chunk),
            progress |-> IF pct = NULL \/ pct > 100 THEN 100 ELSE pct]

\* the receiver's metadataExtractor
NewMetadataExtractor ==
  [metadataBuffer |-> <<>>, metadataReceived |-> FALSE,
   transferMetadata |-> JSONnull, err |-> "none"]

\* an extractor that trusts the preamble: it forwards nothing when the
\* preamble says nothing is to come
MetadataExtractorTrustsSize(x, chunk) ==
  LET combined == IF x.metadataReceived THEN chunk ELSE x.metadataBuffer \o chunk
      newlineIndex == IF x.metadataReceived THEN 0 ELSE IndexOf(combined, Newline[1])
      parsed == JSONparse(SubSeq(combined, 1, newlineIndex - 1))
      y == IF x.metadataReceived THEN x
           ELSE [x EXCEPT !.metadataBuffer = combined,
                          !.metadataReceived = newlineIndex # 0 /\ parsed.ok,
                          !.transferMetadata =
                             IF newlineIndex # 0 /\ parsed.ok THEN parsed.value ELSE @,
                          !.err = IF newlineIndex # 0 /\ ~parsed.ok
                                  THEN "preamble" ELSE @]
  IN  [x |-> y,
       pushed |-> IF y.metadataReceived /\ y.transferMetadata.totalSize > 0
                  THEN Drop(combined, newlineIndex) ELSE <<>>]

\* an extractor that forwards only the chunks after the one with the newline
MetadataExtractorDropsRest(x, chunk) ==
  IF x.metadataReceived THEN [x |-> x, pushed |-> chunk]
  ELSE LET combined == x.metadataBuffer \o chunk
           newlineIndex == IndexOf(combined, Newline[1])
           parsed == JSONparse(SubSeq(combined, 1, newlineIndex - 1))
       IN  [x |-> [x EXCEPT !.metadataBuffer = combined,
                            !.metadataReceived = newlineIndex # 0 /\ parsed.ok,
                            !.transferMetadata =
                               IF newlineIndex # 0 /\ parsed.ok THEN parsed.value ELSE @,
                            !.err = IF newlineIndex # 0 /\ ~parsed.ok
                                    THEN "preamble" ELSE @],
            pushed |-> <<>>]

\* metadataExtractor.transform(chunk): `pushed` is what goes downstream
MetadataExtractorTransform(x, chunk) ==
  IF x.metadataReceived THEN [x |-> x, pushed |-> chunk]
  ELSE LET combined == x.metadataBuffer \o chunk
           newlineIndex == IndexOf(combined, Newline[1])
           b == [x EXCEPT !.metadataBuffer = combined]
       IN  IF newlineIndex = 0 THEN [x |-> b, pushed |-> <<>>]
           ELSE LET parsed == JSONparse(SubSeq(combined, 1, newlineIndex - 1))
                IN  IF ~parsed.ok
                    THEN [x |-> [b EXCEPT !.err = "preamble"], pushed |-> <<>>]
                    ELSE [x |-> [b EXCEPT !.transferMetadata = parsed.value,
                                          !.metadataReceived = TRUE],
                          pushed |-> Drop(combined, newlineIndex)]

\* the sender's pipeline (startSending from the connection on) and the
\* receiver's (startReceiving from the connection on); `stream` is the byte
\* stream the receiver's socket delivers and `got` how much of it has arrived,
\* `forwarded` logs what the extractor pushed and `split` that the newline
\* came in a later chunk than the first
NewSender ==
  [pc |-> "idle", state |-> "waiting", key |-> NULL, metadata |-> NoMetadata,
   tracker |-> NewProgressTracker]

NewReceiver ==
  [pc |-> "idle", state |-> "connecting", stream |-> <<>>, got |-> 0,
   extractor |-> NewMetadataExtractor, tracker |-> NewProgressTracker,
   upstreamEnded |-> FALSE, error |-> "none", forwarded |-> <<>>, split |-> FALSE]

(* ---------------------------------------------------------------------- *)
(* tar.ts: getTransferMetadata, createPackStream, createExtractStream.     *)
(* A path is the sequence of its components from the root; a file system   *)
(* is a function from the paths that exist to nodes [kind, mode, data].    *)
(* An archive is the sequence of tar-stream entries: a header (name, type, *)
(* size, mode) and the body. An entry name is a relative path given by its *)
(* components, which may be '..', or an absolute one (abs).                *)
(* ---------------------------------------------------------------------- *)
RECURSIVE AndNot(_, _)
AndNot(m, u) ==
  IF m = 0 THEN 0
  ELSE (IF m % 2 = 1 /\ u % 2 = 0 THEN 1 ELSE 0) + 2 * AndNot(m \div 2, u \div 2)

\* node:path dirname, join (which normalizes) and relative (of a path below base)
dirname(path) == IF path = <<>> THEN <<>> ELSE Take(path, Len(path) - 1)

RECURSIVE Normalize(_, _)
Normalize(parts, acc) ==
  IF parts = <<>> THEN acc
  ELSE IF Head(parts) = "." THEN Normalize(Tail(parts), acc)
  ELSE IF Head(parts) = ".." THEN Normalize(Tail(parts), dirname(acc))
  ELSE Normalize(Tail(parts), Append(acc, Head(parts)))

join(base, name) == Normalize(name.parts, base)

relative(base, full) == Drop(full, Len(base))

\* readdir(dir, { withFileTypes: true }) in the order the file system lists
ReadDir(fsys, dir, order) ==
  SelectSeq(order, LAMBDA n : Append(dir, n) \in DOMAIN fsys)

RECURSIVE SumSizes(_)
SumSizes(files) == IF files = <<>> THEN 0 ELSE Len(Head(files).data) + SumSizes(Tail(files))

CountsUnlessDirectory(node) == node.kind # "dir"

\* entry.isFile()
IsFile(node) == node.kind = "file"

\* walk(currentPath) of getTransferMetadata: the files it counts, in order
RECURSIVE Walk(_, _, _)
RECURSIVE WalkEntries(_, _, _, _)
WalkEntries(fsys, dir, names, order) ==
  IF names = <<>> THEN <<>>
  ELSE LET fullPath == Append(dir, Head(names))
           here == IF fsys[fullPath].kind = "dir" THEN Walk(fsys, fullPath, order)
                   ELSE IF IsFile(fsys[fullPath]) THEN <<fsys[fullPath]>>
                   ELSE <<>>
       IN  here \o WalkEntries(fsys, dir, Tail(names), order)
Walk(fsys, dir, order) == WalkEntries(fsys, dir, ReadDir(fsys, dir, order), order)

getTransferMetadata(fsys, sourcePath, order) ==
  IF fsys[sourcePath].kind # "dir"
  THEN [totalSize |-> Len(fsys[sourcePath].data), fileCount |-> 1, isDirectory |-> FALSE]
  ELSE LET files == Walk(fsys, sourcePath, order)
       IN  [totalSize |-> SumSizes(files), fileCount |-> Len(files), isDirectory |-> TRUE]

\* pack.entry(header, ...) for a file and for a directory
FileEntry(name, node) ==
  [name |-> [abs |-> FALSE, parts |-> name], type |-> "file",
   size |-> Len(node.data), mode |-> node.mode, data |-> node.data]

DirectoryEntry(name, node) ==
  [name |-> [abs |-> FALSE, parts |-> name], type |-> "directory",
   size |-> 0, mode |-> node.mode, data |-> <<>>]

\* addDirectory(currentPath, basePath) of createPackStream
RECURSIVE addDirectory(_, _, _, _)
RECURSIVE AddEntries(_, _, _, _, _)
AddEntries(fsys, dir, names, basePath, order) ==
  IF names = <<>> THEN <<>>
  ELSE LET fullPath == Append(dir, Head(names))
           relativePath == relative(basePath, fullPath)
           here == IF fsys[fullPath].kind = "dir"
                   THEN <<DirectoryEntry(relativePath, fsys[fullPath])>>
                          \o addDirectory(fsys, fullPath, basePath, order)
                   ELSE IF fsys[fullPath].kind = "file"
                   THEN <<FileEntry(relativePath, fsys[fullPath])>>
                   ELSE <<>>
       IN  here \o AddEntries(fsys, dir, Tail(names), basePath, order)
addDirectory(fsys, currentPath, basePath, order) ==
  AddEntries(fsys, currentPath, ReadDir(fsys, currentPath, order), basePath, order)

\* createPackStream(sourcePath): the entries written before pack.finalize()
createPackStream(fsys, sourcePath, order) ==
  IF fsys[sourcePath].kind # "dir"
  THEN <<FileEntry(<<sourcePath[Len(sourcePath)]>>, fsys[sourcePath])>>
  ELSE addDirectory(fsys, sourcePath, dirname(sourcePath), order)

\* mkdir(path, { recursive: true, mode }): the missing directories are made
\* with mode & ~umask; ok = FALSE when something on the way is no directory
RECURSIVE Mkdirp(_, _, _, _)
Mkdirp(fsys, path, mode, mask) ==
  IF path \in DOMAIN fsys THEN [ok |-> fsys[path].kind = "dir", fs |-> fsys]
  ELSE LET up == Mkdirp(fsys, dirname(path), mode, mask)
       IN  IF ~up.ok THEN up
           ELSE [ok |-> TRUE,
                 fs |-> (path :> [kind |-> "dir", mode |-> AndNot(mode, mask),
                                  data |-> <<>>]) @@ up.fs]

\* createWriteStream(path, { mode }) with the body piped into it: the file is
\* created with mode & ~umask, or an existing file is overwritten
WriteFile(fsys, path, mode, mask, data) ==
  IF path \in DOMAIN fsys
  THEN IF fsys[path].kind = "file"
       THEN [ok |-> TRUE, fs |-> [fsys EXCEPT ![path].data = data]]
       ELSE [ok |-> FALSE, fs |-> fsys]
  ELSE [ok |-> TRUE,
        fs |-> (path :> [kind |-> "file", mode |-> AndNot(mode, mask),
                         data |-> data]) @@ fsys]

\* the handler's position for one entry: "idle" (no entry at hand),
\* "parent" (awaiting mkdir of the parent), "piping" (the body goes into the
\* write stream), "made" (directory made or entry skipped); `before` is the
\* file system the entry found and `piped` the body bytes written so far
NewEntryHandler == [pc |-> "idle", before |-> <<>>, piped |-> 0]

FinishNotAwaited(h, header) == TRUE

\* await new Promise(...): resolved by the write stream's 'finish', which
\* comes when the whole body has been written
FinishAwaited(h, header) == h.piped = Len(header.data)

\* the 'entry' handler of createExtractStream(destPath); ok = FALSE is next(error)
ExtractEntry(fsys, destPath, mask, header) ==
  LET outputPath == join(destPath, header.name)
      parent == Mkdirp(fsys, dirname(outputPath), 511, mask)
  IN  IF ~parent.ok THEN parent
      ELSE IF header.type = "file"
           THEN WriteFile(parent.fs, outputPath, header.mode, mask, header.data)
      ELSE IF header.type = "directory"
           THEN Mkdirp(parent.fs, outputPath, header.mode, mask)
      ELSE parent

(* ---------------------------------------------------------------------- *)
(* State.                                                                  *)
(* ---------------------------------------------------------------------- *)
VARIABLES
  phase,     \* "encode", "transit", "decode", "closed"
  plain,     \* the plaintext the writer holds
  written,   \* the bytes of it written to the encrypt stream so far
  enc,       \* the encrypt stream
  wire,      \* the bytes the decrypt stream is given
  tamper,    \* what happened to the encoder's output on the way
  dec,       \* the decrypt stream
  fed,       \* how many bytes of wire the decrypt stream has been given
  cphase,    \* compress stream: "idle", "open", "flushing", "finished", "destroyed"
  cinput,    \* the input the writer of the compress stream holds
  cwritten,  \* how many bytes of it have been written
  cmp,       \* the compress stream (wrapper or flag prepender)
  zstd,      \* the Zstandard compressor behind the wrapper
  dphase,    \* decompress stream: "idle", "open", "flushing", "finished", "destroyed"
  dpiped,    \* TRUE: it reads what the compress stream pushes; FALSE: it reads dinput
  dinput,    \* the bytes a writer other than the compress stream holds
  dfed,      \* how many bytes of its source the decompress stream has been given
  decomp,    \* the decompress stream (wrapper)
  unzstd,    \* the Zstandard decompressor behind the wrapper
  srcPath,          \* the top-level source path the sender was given
  srcIsDirectory,   \* whether that path names a directory
  compressDecision, \* "unset", or "yes" / "no": what shouldCompress(path) returned
  kphase,      \* topic key: "idle", "fresh", "shown", "parsed"
  topic,       \* the bytes randomBytes(KEY_SIZE) gave the sender
  displayKey,  \* the display key generateTopicKey returned
  parsedKey,   \* what parseTopicKey made of the display key
  sess,         \* the send or receive session (startSending / startReceiving)
  shareKey,     \* the display key the receiver was started with
  rv,           \* the session's rendezvous: swarm, listener, promise, timeout
  connections,  \* how many 'connection' events the swarm has emitted
  destWrites,   \* how many times the receiver wrote under its destination
  shell,        \* the Shell component's state: its mode and transfer mode
  cancelRequested, \* Escape was pressed while the transfer was running
  snd,          \* the sender's pipeline: preamble, pack, compress, encrypt
  sock,         \* the bytes the sender has written to the socket
  rcv,          \* the receiver's pipeline: split, decrypt, decompress, extract
  tphase,     \* archive: "idle", "start", "probed", "packed", "done", "failed"
  srcFs,      \* the sender's file system
  dirOrder,   \* the order in which readdir lists names
  umask,      \* the receiver's file mode creation mask
  meta,       \* what getTransferMetadata returned
  archive,    \* the entries the extract stream is given
  extracted,  \* how many of them its 'entry' handler has taken
  destFs,     \* the receiver's file system
  handler     \* the 'entry' handler of the extract stream at work

aeadVars == <<phase, plain, written, enc, wire, tamper, dec, fed>>
compressVars == <<cphase, cinput, cwritten, cmp, zstd>>
decompressVars == <<dphase, dpiped, dinput, dfed, decomp, unzstd>>
pathVars == <<srcPath, srcIsDirectory, compressDecision>>
keyVars == <<kphase, topic, displayKey, parsedKey>>
sessionVars == <<sess, shareKey, rv, connections, destWrites, shell, cancelRequested>>
tarVars == <<tphase, srcFs, dirOrder, umask, meta, archive, extracted, destFs, handler>>
transferVars == <<snd, sock, rcv>>
vars ==
  <<aeadVars, compressVars, decompressVars, pathVars, keyVars, sessionVars, tarVars,
    transferVars>>

\* what the AEAD actions leave alone, and what the compression actions leave alone
outsideAead == <<compressVars, decompressVars, pathVars, keyVars, sessionVars, tarVars,
  transferVars>>
outsideCompress == <<aeadVars, decompressVars, pathVars, keyVars, sessionVars, tarVars,
  transferVars>>
outsideDecompress == <<aeadVars, pathVars, keyVars, sessionVars, tarVars,
  transferVars>>
outsidePath == <<aeadVars, compressVars, decompressVars, keyVars, sessionVars, tarVars,
  transferVars>>
outsideKey == <<aeadVars, compressVars, decompressVars, pathVars, sessionVars, tarVars,
  transferVars>>
outsideSession == <<aeadVars, compressVars, decompressVars, pathVars, keyVars, tarVars,
  transferVars>>
outsideTar == <<aeadVars, compressVars, decompressVars, pathVars, keyVars, sessionVars,
  transferVars>>

AeadIdle ==
  /\ phase = "closed"
  /\ plain = <<>>
  /\ written = <<>>
  /\ enc = NewEncryptStream(1, <<0, 0>>)
  /\ wire = <<>>
  /\ tamper = [kind |-> "none", pos |-> 0]
  /\ dec = NewDecryptStream(1)
  /\ fed = 0

CompressIdle ==
  /\ cphase = "idle"
  /\ cinput = <<>>
  /\ cwritten = 0
  /\ cmp = NewCompressStream(FALSE)
  /\ zstd = NewZstdStream(FALSE)

DecompressIdle ==
  /\ dphase = "idle"
  /\ dpiped = FALSE
  /\ dinput = <<>>
  /\ dfed = 0
  /\ decomp = NewDecompressStream
  /\ unzstd = NewUnzstdStream(FALSE)

PathIdle ==
  /\ srcPath = <<>>
  /\ srcIsDirectory = FALSE
  /\ compressDecision = "unset"

KeyIdle ==
  /\ kphase = "idle"
  /\ topic = <<>>
  /\ displayKey = <<>>
  /\ parsedKey = [ok |-> FALSE, topic |-> <<>>]

SessionIdle ==
  /\ sess = NewSession("none")
  /\ shareKey = <<>>
  /\ rv = NewRendezvous
  /\ connections = 0
  /\ destWrites = 0
  /\ shell = NewShell("none")
  /\ cancelRequested = FALSE

TransferIdle ==
  /\ snd = NewSender
  /\ sock = NewSocket
  /\ rcv = NewReceiver

EmptyFs == (<<>> :> [kind |-> "dir", mode |-> 493, data |-> <<>>])

TarIdle ==
  /\ tphase = "idle"
  /\ srcFs = EmptyFs
  /\ dirOrder = <<>>
  /\ umask = 0
  /\ meta = [totalSize |-> 0, fileCount |-> 0, isDirectory |-> FALSE]
  /\ archive = <<>>
  /\ extracted = 0
  /\ destFs = EmptyFs
  /\ handler = NewEntryHandler

(* ---------------------------------------------------------------------- *)
(* The encrypt stream feeding a decrypt stream over a byte channel.        *)
(* ---------------------------------------------------------------------- *)
AeadInit ==
  /\ phase = "encode"
  /\ plain \in Plaintexts
  /\ written = <<>>
  /\ \E k \in Keys, p \in Prefixes : enc = NewEncryptStream(k, p)
  /\ wire = <<>>
  /\ tamper = [kind |-> "none", pos |-> 0]
  /\ \E k \in Keys : dec = NewDecryptStream(k)
  /\ fed = 0

Init ==
  AeadInit /\ CompressIdle /\ DecompressIdle /\ PathIdle /\ KeyIdle /\ SessionIdle
    /\ TarIdle /\ TransferIdle

\* encryptStream.write(chunk): the next n bytes of the plaintext
EncWrite ==
  /\ phase = "encode"
  /\ \E n \in 0..(Len(plain) - Len(written)) :
       LET chunk == SubSeq(plain, Len(written) + 1, Len(written) + n)
       IN  /\ written' = written \o chunk
           /\ enc' = EncTransform(enc, chunk)
  /\ phase' = IF enc'.err = "none" THEN "encode" ELSE "closed"
  /\ UNCHANGED <<plain, wire, tamper, dec, fed, outsideAead>>

\* encryptStream.end(), once the whole plaintext is written
EncEnd ==
  /\ phase = "encode"
  /\ written = plain
  /\ enc' = EncFlush(enc)
  /\ phase' = IF enc'.err = "none" THEN "transit" ELSE "closed"
  /\ UNCHANGED <<plain, written, wire, tamper, dec, fed, outsideAead>>

\* the encoder's output reaches the decoder unchanged
Deliver ==
  /\ phase = "transit"
  /\ wire' = enc.out
  /\ tamper' = [kind |-> "none", pos |-> 0]
  /\ phase' = "decode"
  /\ UNCHANGED <<plain, written, enc, dec, fed, outsideAead>>

\* one bit of the encoder's output is inverted on the way
FlipOneBit ==
  /\ phase = "transit"
  /\ dec.key = enc.key
  /\ \E i \in 1..Len(enc.out), k \in Bits :
       /\ wire' = [enc.out EXCEPT ![i] = FlipBit(@, k)]
       /\ tamper' = [kind |-> "flip", pos |-> i]
  /\ phase' = "decode"
  /\ UNCHANGED <<plain, written, enc, dec, fed, outsideAead>>

\* the channel ends before the encoder's last byte
Truncate ==
  /\ phase = "transit"
  /\ dec.key = enc.key
  /\ \E n \in 0..(Len(enc.out) - 1) :
       /\ wire' = Take(enc.out, n)
       /\ tamper' = [kind |-> "cut", pos |-> n]
  /\ phase' = "decode"
  /\ UNCHANGED <<plain, written, enc, dec, fed, outsideAead>>

\* bytes follow the encoder's end marker
AppendTrailing ==
  /\ phase = "transit"
  /\ dec.key = enc.key
  /\ \E extra \in {<<0>>, <<7, 7, 7>>} :
       /\ wire' = enc.out \o extra
       /\ tamper' = [kind |-> "trail", pos |-> Len(enc.out)]
  /\ phase' = "decode"
  /\ UNCHANGED <<plain, written, enc, dec, fed, outsideAead>>

\* decryptStream.write(chunk): the next n bytes of the channel; an error given
\* to the callback destroys the stream
DecWrite ==
  /\ phase = "decode"
  /\ \E n \in 1..(Len(wire) - fed) :
       /\ dec' = DecTransform(dec, SubSeq(wire, fed + 1, fed + n))
       /\ fed' = fed + n
  /\ phase' = IF dec'.err = "none" THEN "decode" ELSE "closed"
  /\ UNCHANGED <<plain, written, enc, wire, tamper, outsideAead>>

\* decryptStream.end(): the stream defines no flush, so it just finishes
DecEnd ==
  /\ phase = "decode"
  /\ fed = Len(wire)
  /\ phase' = "closed"
  /\ UNCHANGED <<plain, written, enc, wire, tamper, dec, fed, outsideAead>>

Next ==
  \/ EncWrite
  \/ EncEnd
  \/ Deliver
  \/ FlipOneBit
  \/ Truncate
  \/ AppendTrailing
  \/ DecWrite
  \/ DecEnd

Spec == Init /\ [][Next]_vars

(* ---------------------------------------------------------------------- *)
(* The same channel with an adversary that does not know the key and works *)
(* on whole chunks of the encoder's output: it swaps two chunks, repeats    *)
(* one, removes one, or ends the stream early, by cutting it or by putting  *)
(* an end marker after an earlier chunk.                                    *)
(* ---------------------------------------------------------------------- *)
\* the chunks [length][ciphertext][tag] of an encoded stream without its nonce
\* prefix, up to the end marker
RECURSIVE SplitChunks(_, _)
SplitChunks(bytes, acc) ==
  IF Len(bytes) < LENGTH_SIZE THEN acc
  ELSE LET size == LENGTH_SIZE + ReadUIntBE(bytes, LENGTH_SIZE) + TAG_SIZE
       IN  IF ReadUIntBE(bytes, LENGTH_SIZE) = 0 \/ Len(bytes) < size THEN acc
           ELSE SplitChunks(Drop(bytes, size), Append(acc, Take(bytes, size)))

EncodedChunks == SplitChunks(Drop(enc.out, NONCE_PREFIX_SIZE), <<>>)

\* a stream of the given chunks, with the encoder's nonce prefix and end marker
Reassemble(chunks) ==
  Take(enc.out, NONCE_PREFIX_SIZE) \o Concat(chunks) \o Zeros(LENGTH_SIZE)

\* chunks i and j change places; tamper.pos is the index, from 0, of the first
\* chunk that is not at its own position
SwapChunks ==
  /\ phase = "transit"
  /\ dec.key = enc.key
  /\ \E i \in 1..Len(EncodedChunks), j \in 1..Len(EncodedChunks) :
       /\ i < j
       /\ wire' = Reassemble([k \in 1..Len(EncodedChunks) |->
                      IF k = i THEN EncodedChunks[j]
                      ELSE IF k = j THEN EncodedChunks[i]
                      ELSE EncodedChunks[k]])
       /\ tamper' = [kind |-> "swap", pos |-> i - 1]
  /\ phase' = "decode"
  /\ UNCHANGED <<plain, written, enc, dec, fed, outsideAead>>

\* chunk i is followed by a copy of itself
DuplicateChunk ==
  /\ phase = "transit"
  /\ dec.key = enc.key
  /\ \E i \in 1..Len(EncodedChunks) :
       /\ wire' = Reassemble(Take(EncodedChunks, i) \o <<EncodedChunks[i]>>
                               \o Drop(EncodedChunks, i))
       /\ tamper' = [kind |-> "dup", pos |-> i]
  /\ phase' = "decode"
  /\ UNCHANGED <<plain, written, enc, dec, fed, outsideAead>>

\* a chunk other than the last one is taken out
RemoveChunk ==
  /\ phase = "transit"
  /\ dec.key = enc.key
  /\ \E i \in 1..(Len(EncodedChunks) - 1) :
       /\ wire' = Reassemble(Take(EncodedChunks, i - 1) \o Drop(EncodedChunks, i))
       /\ tamper' = [kind |-> "drop", pos |-> i - 1]
  /\ phase' = "decode"
  /\ UNCHANGED <<plain, written, enc, dec, fed, outsideAead>>

\* an end marker follows the first m chunks, m less than their number; the
\* other chunks are dropped or left behind it
EndEarly ==
  /\ phase = "transit"
  /\ dec.key = enc.key
  /\ \E m \in 0..(Len(EncodedChunks) - 1), keep \in BOOLEAN :
       /\ wire' = Reassemble(Take(EncodedChunks, m))
                    \o (IF keep THEN Concat(Drop(EncodedChunks, m)) \o Zeros(LENGTH_SIZE)
                        ELSE <<>>)
       /\ tamper' = [kind |-> IF keep THEN "endmark" ELSE "droptail", pos |-> m]
  /\ phase' = "decode"
  /\ UNCHANGED <<plain, written, enc, dec, fed, outsideAead>>

ChunkNext ==
  \/ EncWrite
  \/ EncEnd
  \/ SwapChunks
  \/ DuplicateChunk
  \/ RemoveChunk
  \/ EndEarly
  \/ Truncate
  \/ DecWrite
  \/ DecEnd

ChunkSpec == Init /\ [][ChunkNext]_vars

(* ---------------------------------------------------------------------- *)
(* One encrypt stream given a long input, up to the chunk whose counter    *)
(* no longer fits the counter field of the nonce.                          *)
(* ---------------------------------------------------------------------- *)
\* the counter values that fit the nonce
CounterSpace == Pow(256, NONCE_SIZE - NONCE_PREFIX_SIZE)

\* one chunk more than there are counter values, and a residual byte
LongInputSize == (CounterSpace + 1) * CHUNK_SIZE + 1

CounterInit ==
  /\ phase = "encode"
  /\ plain = <<>>
  /\ written = <<>>
  /\ \E p \in Prefixes : enc = NewEncryptStream(1, p)
  /\ wire = <<>>
  /\ tamper = [kind |-> "none", pos |-> 0]
  /\ dec = NewDecryptStream(1)
  /\ fed = 0

\* encryptStream.write(chunk) with the next n bytes of a long source
LongWrite ==
  /\ phase = "encode"
  /\ \E n \in 1..(CHUNK_SIZE + 1) :
       /\ Len(written) + n <= LongInputSize
       /\ LET chunk == [i \in 1..n |-> (Len(written) + i) % 256]
          IN  /\ written' = written \o chunk
              /\ enc' = EncTransform(enc, chunk)
  /\ phase' = IF enc'.err = "none" THEN "encode" ELSE "closed"
  /\ UNCHANGED <<plain, wire, tamper, dec, fed, outsideAead>>

\* encryptStream.end()
LongEnd ==
  /\ phase = "encode"
  /\ plain' = written
  /\ enc' = EncFlush(enc)
  /\ phase' = IF enc'.err = "none" THEN "transit" ELSE "closed"
  /\ UNCHANGED <<written, wire, tamper, dec, fed, outsideAead>>

CounterNext == LongWrite \/ LongEnd

CounterSpecInit ==
  CounterInit /\ CompressIdle /\ DecompressIdle /\ PathIdle /\ KeyIdle /\ SessionIdle
    /\ TarIdle /\ TransferIdle

CounterSpec == CounterSpecInit /\ [][CounterNext]_vars

(* ---------------------------------------------------------------------- *)
(* createCompressStream(shouldCompress) under a writer.                    *)
(* ---------------------------------------------------------------------- *)
CompressInit ==
  /\ cphase = "open"
  /\ cinput \in Plaintexts
  /\ cwritten = 0
  /\ \E m \in BOOLEAN : cmp = NewCompressStream(m)
  /\ \E f \in BOOLEAN : zstd = NewZstdStream(f)

\* compressStream.write(chunk): the flag prepender's transform, or the wrapper's
\* transform, whose callback waits for 'drain' when zstdStream.write returns false
CompressWrite ==
  /\ cphase = "open"
  /\ ~cmp.awaitingDrain
  /\ \E n \in 0..(Len(cinput) - cwritten) :
       LET chunk == SubSeq(cinput, cwritten + 1, cwritten + n)
       IN  /\ cwritten' = cwritten + n
           /\ IF cmp.enabled
              THEN /\ zstd' = [zstd EXCEPT !.input = @ \o chunk]
                   /\ \E full \in BOOLEAN : cmp' = [cmp EXCEPT !.awaitingDrain = full]
              ELSE /\ cmp' = FlagPrependerTransform(cmp, FLAG_RAW, chunk)
                   /\ zstd' = zstd
  /\ UNCHANGED <<cphase, cinput, outsideCompress>>

\* 'drain' of the Zstandard stream: the pending transform callback runs
ZstdDrain ==
  /\ cphase = "open"
  /\ cmp.awaitingDrain
  /\ cmp' = [cmp EXCEPT !.awaitingDrain = FALSE]
  /\ UNCHANGED <<cphase, cinput, cwritten, zstd, outsideCompress>>

\* compressStream.end(): the prepender has no flush and finishes; the wrapper's
\* flush ends the Zstandard stream and waits for its 'end'
CompressEnd ==
  /\ cphase = "open"
  /\ ~cmp.awaitingDrain
  /\ cwritten = Len(cinput)
  /\ IF cmp.enabled
     THEN /\ zstd' = [zstd EXCEPT !.ending = TRUE]
          /\ cphase' = "flushing"
     ELSE /\ zstd' = zstd
          /\ cphase' = "finished"
  /\ UNCHANGED <<cinput, cwritten, cmp, outsideCompress>>

\* 'data' of the Zstandard stream: the next n bytes of the frame
ZstdData ==
  /\ cphase \in {"open", "flushing"}
  /\ cmp.enabled
  /\ ~zstd.ended
  /\ \E n \in 1..(Len(ZstdFrameSoFar(zstd)) - zstd.emitted) :
       /\ cmp' = ZstdDataHandler(cmp, SubSeq(ZstdFrameSoFar(zstd), zstd.emitted + 1,
                                             zstd.emitted + n))
       /\ zstd' = [zstd EXCEPT !.emitted = @ + n]
  /\ UNCHANGED <<cphase, cinput, cwritten, outsideCompress>>

\* 'end' of the Zstandard stream, after all of its data: the flush callback runs
ZstdEnd ==
  /\ cphase = "flushing"
  /\ zstd.ending /\ ~zstd.ended
  /\ zstd.emitted = Len(ZstdFrameSoFar(zstd))
  /\ zstd' = [zstd EXCEPT !.ended = TRUE]
  /\ cmp' = ZstdEndHandler(cmp)
  /\ cphase' = "finished"
  /\ UNCHANGED <<cinput, cwritten, outsideCompress>>

\* 'error' of the Zstandard stream: wrapper.destroy(err)
ZstdError ==
  /\ cphase \in {"open", "flushing"}
  /\ cmp.enabled
  /\ cmp' = [cmp EXCEPT !.err = "zstd"]
  /\ cphase' = "destroyed"
  /\ UNCHANGED <<cinput, cwritten, zstd, outsideCompress>>

CompressNext ==
  \/ CompressWrite
  \/ ZstdDrain
  \/ CompressEnd
  \/ ZstdData
  \/ ZstdEnd
  \/ ZstdError

CompressSpecInit ==
  CompressInit /\ AeadIdle /\ DecompressIdle /\ PathIdle /\ KeyIdle /\ SessionIdle
    /\ TarIdle /\ TransferIdle

CompressSpec == CompressSpecInit /\ [][CompressNext]_vars

(* ---------------------------------------------------------------------- *)
(* createDecompressStream() under a writer: either the compress stream     *)
(* piped into it (compression.test.ts, compressDecompressRoundtrip) or a   *)
(* writer holding arbitrary bytes.                                         *)
(* ---------------------------------------------------------------------- *)
ZstdFrame(p) == ZstdFrameSoFar([input |-> p, ending |-> TRUE, emptyFrame |-> TRUE])

DFlags == {FLAG_RAW, FLAG_COMPRESSED, 2, 153, 255}

DInputs ==
  {<<f>> \o p : f \in DFlags, p \in Plaintexts}
    \cup UNION {{<<FLAG_COMPRESSED>> \o Take(ZstdFrame(p), k) :
                   k \in 0..Len(ZstdFrame(p))} : p \in Plaintexts}
    \cup {<<>>}

\* what the decompress stream reads: the decrypt stream's output in a
\* transfer, else the compress stream's output or a given input
DSource ==
  IF rcv.pc # "idle" THEN dec.out ELSE IF dpiped THEN cmp.out ELSE dinput
DSourceEnded ==
  IF rcv.pc # "idle" THEN rcv.upstreamEnded ELSE (dpiped => cphase = "finished")

DecompressInit ==
  /\ dphase = "open"
  /\ dfed = 0
  /\ decomp = NewDecompressStream
  /\ \E l \in BOOLEAN : unzstd = NewUnzstdStream(l)
  /\ \/ dpiped = TRUE /\ dinput = <<>> /\ CompressInit
     \/ dpiped = FALSE /\ dinput \in DInputs /\ CompressIdle

\* decompressStream.write(chunk): the next n bytes of the source; the callback
\* waits for 'drain' when the Zstandard stream's write returns false
DecompressWrite ==
  /\ dphase = "open"
  /\ ~decomp.awaitingDrain
  /\ \E n \in 0..(Len(DSource) - dfed) :
       LET r == DecompressTransform(decomp, SubSeq(DSource, dfed + 1, dfed + n))
       IN  /\ dfed' = dfed + n
           /\ unzstd' = [unzstd EXCEPT !.input = @ \o r.toZstd]
           /\ \E full \in (IF r.toZstd = <<>> THEN {FALSE} ELSE BOOLEAN) :
                decomp' = [r.d EXCEPT !.awaitingDrain = full]
           /\ dphase' = IF r.d.destroyed THEN "destroyed" ELSE dphase
  /\ UNCHANGED <<dpiped, dinput, compressVars, outsideDecompress>>

\* 'drain' of the Zstandard stream: the pending transform callback runs
UnzstdDrain ==
  /\ dphase = "open"
  /\ decomp.awaitingDrain
  /\ decomp' = [decomp EXCEPT !.awaitingDrain = FALSE]
  /\ UNCHANGED <<dphase, dpiped, dinput, dfed, unzstd, compressVars, outsideDecompress>>

\* decompressStream.end(): flush ends the Zstandard stream, if there is one, and
\* waits for its 'end'
DecompressEnd ==
  /\ dphase = "open"
  /\ ~decomp.awaitingDrain
  /\ DSourceEnded
  /\ dfed = Len(DSource)
  /\ IF decomp.hasZstd
     THEN /\ unzstd' = [unzstd EXCEPT !.ending = TRUE]
          /\ dphase' = "flushing"
     ELSE /\ unzstd' = unzstd
          /\ dphase' = "finished"
  /\ UNCHANGED <<dpiped, dinput, dfed, decomp, compressVars, outsideDecompress>>

\* 'data' of the Zstandard stream: wrapper.push of the next n decoded bytes
UnzstdData ==
  /\ dphase \in {"open", "flushing"}
  /\ decomp.hasZstd
  /\ ~unzstd.ended
  /\ \E n \in 1..(Len(ZstdDecoded(unzstd.input).out) - unzstd.emitted) :
       /\ decomp' = [decomp EXCEPT !.out = @ \o SubSeq(ZstdDecoded(unzstd.input).out,
                                                       unzstd.emitted + 1,
                                                       unzstd.emitted + n)]
       /\ unzstd' = [unzstd EXCEPT !.emitted = @ + n]
  /\ UNCHANGED <<dphase, dpiped, dinput, dfed, compressVars, outsideDecompress>>

\* 'end' of the Zstandard stream, after all of its data: the flush callback runs
UnzstdEnd ==
  /\ dphase = "flushing"
  /\ unzstd.ending /\ ~unzstd.ended
  /\ LET z == ZstdDecoded(unzstd.input)
     IN  /\ ~z.bad
         /\ z.complete \/ unzstd.lenient
         /\ unzstd.emitted = Len(z.out)
  /\ unzstd' = [unzstd EXCEPT !.ended = TRUE]
  /\ dphase' = "finished"
  /\ UNCHANGED <<dpiped, dinput, dfed, decomp, compressVars, outsideDecompress>>

\* 'error' of the Zstandard stream: wrapper.destroy(err), whose destroy hook
\* destroys the Zstandard stream
UnzstdError ==
  /\ dphase \in {"open", "flushing"}
  /\ decomp.hasZstd
  /\ LET z == ZstdDecoded(unzstd.input)
     IN  z.bad \/ (unzstd.ending /\ ~z.complete /\ ~unzstd.lenient)
  /\ decomp' = [decomp EXCEPT !.err = "zstd", !.destroyed = TRUE]
  /\ dphase' = "destroyed"
  /\ UNCHANGED <<dpiped, dinput, dfed, unzstd, compressVars, outsideDecompress>>

\* pipeline(input, compress, decompress, output): an error of the compress
\* stream destroys the decompress stream
PipelineDestroy ==
  /\ dpiped
  /\ cphase = "destroyed"
  /\ dphase \in {"open", "flushing"}
  /\ decomp' = [decomp EXCEPT !.err = "upstream", !.destroyed = TRUE]
  /\ dphase' = "destroyed"
  /\ UNCHANGED <<dpiped, dinput, dfed, unzstd, compressVars, outsideDecompress>>

DecompressNext ==
  \/ CompressWrite
  \/ ZstdDrain
  \/ CompressEnd
  \/ ZstdData
  \/ ZstdEnd
  \/ ZstdError
  \/ DecompressWrite
  \/ UnzstdDrain
  \/ DecompressEnd
  \/ UnzstdData
  \/ UnzstdEnd
  \/ UnzstdError
  \/ PipelineDestroy

DecompressSpecInit ==
  DecompressInit /\ AeadIdle /\ PathIdle /\ KeyIdle /\ SessionIdle /\ TarIdle
    /\ TransferIdle

DecompressSpec == DecompressSpecInit /\ [][DecompressNext]_vars

(* ---------------------------------------------------------------------- *)
(* The sender's compression decision: shouldCompress(path) on the path it  *)
(* was given, a file or a directory of any name.                           *)
(* ---------------------------------------------------------------------- *)
Paths == UNION {[1..n -> PathChars] : n \in 1..MaxPath}

PathInit ==
  /\ srcPath \in Paths
  /\ srcIsDirectory \in BOOLEAN
  /\ ~srcIsDirectory => srcPath[Len(srcPath)] # "/"
  /\ compressDecision = "unset"

\* compressed: shouldCompress(path)
DecideCompression ==
  /\ compressDecision = "unset"
  /\ compressDecision' = IF shouldCompress(srcPath) THEN "yes" ELSE "no"
  /\ UNCHANGED <<srcPath, srcIsDirectory, outsidePath>>

PathNext == DecideCompression

PathSpecInit ==
  PathInit /\ AeadIdle /\ CompressIdle /\ DecompressIdle /\ KeyIdle /\ SessionIdle
    /\ TarIdle /\ TransferIdle

PathSpec == PathSpecInit /\ [][PathNext]_vars

(* ---------------------------------------------------------------------- *)
(* The topic key from the sender's generateTopicKey to the receiver's      *)
(* parseTopicKey of the display key it was shown (crypto.test.ts, Test 1). *)
(* ---------------------------------------------------------------------- *)
TopicBytes == {0, 1, 90, 165, 255}
Topics == [1..KEY_SIZE -> TopicBytes]

KeyInit ==
  /\ kphase = "fresh"
  /\ topic \in Topics
  /\ displayKey = <<>>
  /\ parsedKey = [ok |-> FALSE, topic |-> <<>>]

\* const { topic, displayKey } = generateTopicKey()
GenerateTopicKey ==
  /\ kphase = "fresh"
  /\ displayKey' = generateTopicKey(topic).displayKey
  /\ kphase' = "shown"
  /\ UNCHANGED <<topic, parsedKey, outsideKey>>

\* const parsedTopic = parseTopicKey(displayKey)
ParseTopicKey ==
  /\ kphase = "shown"
  /\ parsedKey' = parseTopicKey(displayKey)
  /\ kphase' = "parsed"
  /\ UNCHANGED <<topic, displayKey, outsideKey>>

KeyNext == GenerateTopicKey \/ ParseTopicKey

KeySpecInit ==
  KeyInit /\ AeadIdle /\ CompressIdle /\ DecompressIdle /\ PathIdle /\ SessionIdle
    /\ TarIdle /\ TransferIdle

KeySpec == KeySpecInit /\ [][KeyNext]_vars

(* ---------------------------------------------------------------------- *)
(* One session, sending or receiving, from its start to its return, with   *)
(* the swarm's 'connection' events and the rendezvous timeout as the       *)
(* environment. The transfer itself is the pipeline's outcome.             *)
(* ---------------------------------------------------------------------- *)
MaxConnections == 2

SessionTopics == {[i \in 1..KEY_SIZE |-> 0], <<255, 165, 90, 1, 0>>}

\* the display keys a receiver is started with: those of topics, cut short,
\* one character too long, or with a character that is no base64 character
ShareKeys ==
  UNION {{Take(v, n) : n \in 0..Len(v)}
           \cup {v \o <<c>> : c \in {"A", "=", "!"}}
           \cup {[v EXCEPT ![i] = c] : i \in 1..Len(v), c \in {"=", "!"}} :
         v \in {toStringBase64Url(t) : t \in SessionTopics}}

SessionInit ==
  /\ \/ sess = NewSession("send") /\ shareKey = <<>>
     \/ sess = NewSession("receive") /\ shareKey \in ShareKeys
  /\ rv = NewRendezvous
  /\ connections = 0
  /\ destWrites = 0
  /\ shell = NewShell(sess.role)
  /\ cancelRequested = FALSE

\* the process is alive and the async function has not returned
Running == sess.pc \notin {"returned", "crashed"}

\* startReceiving up to the await of swarm.flush() inside createReceiverSwarm
ReceiveStart ==
  /\ sess.role = "receive" /\ sess.pc = "start"
  /\ LET t == parseTopicKey(shareKey)
         k == deriveKey(t.topic)
     IN  IF ~t.ok
         THEN /\ sess' = Catch(sess, "Invalid key")
              /\ shell' = handleTransferError(shell)
              /\ rv' = rv
         ELSE IF ~k.ok
         THEN /\ sess' = Catch(sess, "Topic must be")
              /\ shell' = handleTransferError(shell)
              /\ rv' = rv
         ELSE /\ sess' = [sess EXCEPT !.pc = "flushing", !.key = k.key]
              /\ shell' = shell
              /\ rv' = createReceiverSwarm(rv)
  /\ UNCHANGED <<shareKey, connections, destWrites, cancelRequested, outsideSession>>

\* swarm.flush() resolves: createReceiverSwarm returns and startReceiving
\* awaits connectionPromise
ReceiverFlushed ==
  /\ sess.role = "receive" /\ sess.pc = "flushing"
  /\ sess' = [sess EXCEPT !.pc = "waiting"]
  /\ UNCHANGED <<shareKey, rv, connections, destWrites, shell, cancelRequested,
                 outsideSession>>

\* startSending up to the await of getTransferMetadata(path)
SendStart ==
  /\ sess.role = "send" /\ sess.pc = "start"
  /\ \E t \in SessionTopics :
       /\ shareKey' = generateTopicKey(t).displayKey
       /\ sess' = [sess EXCEPT !.pc = "probing", !.key = deriveKey(t).key]
  /\ UNCHANGED <<rv, connections, destWrites, shell, cancelRequested, outsideSession>>

\* getTransferMetadata settles; on success startSending goes on up to the
\* await of discovery.flushed() inside createSenderSwarm
ProbeDone ==
  /\ sess.role = "send" /\ sess.pc = "probing"
  /\ \/ /\ sess' = [sess EXCEPT !.pc = "flushing", !.state = "waiting"]
        /\ rv' = createSenderSwarm(rv)
        /\ shell' = shell
     \/ /\ sess' = Catch(sess, "stat")
        /\ rv' = rv
        /\ shell' = handleTransferError(shell)
  /\ UNCHANGED <<shareKey, connections, destWrites, cancelRequested, outsideSession>>

\* discovery.flushed() resolves: createSenderSwarm returns and startSending
\* calls waitForPeer() and awaits it
SenderFlushed ==
  /\ sess.role = "send" /\ sess.pc = "flushing"
  /\ sess' = [sess EXCEPT !.pc = "waiting"]
  /\ rv' = waitForPeer(rv)
  /\ UNCHANGED <<shareKey, connections, destWrites, shell, cancelRequested,
                 outsideSession>>

\* a peer connects: the swarm emits 'connection' with a new socket
PeerConnects ==
  /\ rv.joined /\ ~rv.destroyed /\ sess.pc # "crashed"
  /\ connections < MaxConnections
  /\ connections' = connections + 1
  /\ rv' = EmitConnection(rv, connections + 1)
  /\ UNCHANGED <<sess, shareKey, destWrites, shell, cancelRequested, outsideSession>>

\* CONNECTION_TIMEOUT after the observer was armed. A rejection of a promise
\* that nothing awaits yet (the receiver is still inside swarm.flush()) is
\* an unhandled rejection: the runtime ends the process (the default since
\* Node.js 15) or only warns (--unhandled-rejections=warn).
RendezvousTimeout ==
  /\ rv.timer = "armed" /\ sess.pc # "crashed"
  /\ rv' = TimeoutFires(rv, sess.pc = "waiting")
  /\ \/ sess' = sess
     \/ rv'.unhandled /\ sess' = [sess EXCEPT !.pc = "crashed"]
  /\ UNCHANGED <<shareKey, connections, destWrites, shell, cancelRequested,
                 outsideSession>>

\* the awaited promise is resolved: the session has its socket and builds the
\* pipeline
Connected ==
  /\ sess.pc = "waiting" /\ rv.promise = "resolved"
  /\ sess' = [sess EXCEPT !.pc = "transfer", !.socket = rv.socket,
                          !.state = IF sess.role = "send" THEN "sending" ELSE "receiving"]
  /\ UNCHANGED <<shareKey, rv, connections, destWrites, shell, cancelRequested,
                 outsideSession>>

\* the awaited promise is rejected: the catch block runs
RendezvousFailed ==
  /\ sess.pc = "waiting" /\ rv.promise = "rejected"
  /\ sess' = Catch(sess, "Connection timeout")
  /\ shell' = handleTransferError(shell)
  /\ UNCHANGED <<shareKey, rv, connections, destWrites, cancelRequested, outsideSession>>

\* the receiver's extract stream creates a file or directory
ExtractWrites ==
  /\ sess.role = "receive" /\ sess.pc = "transfer"
  /\ destWrites = 0
  /\ destWrites' = 1
  /\ UNCHANGED <<sess, shareKey, rv, connections, shell, cancelRequested,
                 outsideSession>>

\* await pipeline(...) resolves: setState('done'); the sender calls
\* cleanupSwarm at once, the receiver after a delay of 100 ms
PipelineDone ==
  /\ sess.pc = "transfer"
  /\ sess' = [sess EXCEPT !.state = "done",
                          !.pc = IF sess.role = "send" THEN "cleanup" ELSE "settling"]
  /\ UNCHANGED <<shareKey, rv, connections, destWrites, shell, cancelRequested,
                 outsideSession>>

\* what makes await pipeline(...) reject: a preamble that does not parse, a
\* chunk that does not authenticate, an invalid flag, a socket error
PipelineErrors == {"preamble", "auth", "flag", "socket"}

\* await pipeline(...) rejects: the catch block runs
PipelineFailed ==
  /\ sess.pc = "transfer"
  /\ \E e \in PipelineErrors :
       /\ sess.role = "send" => e = "socket"
       /\ sess' = Catch(sess, e)
  /\ shell' = handleTransferError(shell)
  /\ UNCHANGED <<shareKey, rv, connections, destWrites, cancelRequested, outsideSession>>

\* the receiver's 100 ms delay is over: cleanupSwarm(swarm) is called
Settled ==
  /\ sess.pc = "settling"
  /\ sess' = [sess EXCEPT !.pc = "cleanup"]
  /\ UNCHANGED <<shareKey, rv, connections, destWrites, shell, cancelRequested,
                 outsideSession>>

\* swarm.destroy() resolves: onComplete is called
SwarmDestroyed ==
  /\ sess.pc = "cleanup"
  /\ rv' = cleanupSwarm(rv)
  /\ sess' = [sess EXCEPT !.pc = "returned", !.completed = TRUE]
  /\ shell' = handleTransferComplete(shell)
  /\ UNCHANGED <<shareKey, connections, destWrites, cancelRequested, outsideSession>>

\* swarm.destroy() rejects: await cleanupSwarm(swarm) stands inside the try
\* block, after setState('done'), so the catch block runs; how far the
\* swarm got with its teardown is not known
SwarmDestroyFailed ==
  /\ sess.pc = "cleanup"
  /\ rv' \in {rv, cleanupSwarm(rv)}
  /\ sess' = Catch(sess, "destroy")
  /\ shell' = handleTransferError(shell)
  /\ UNCHANGED <<shareKey, connections, destWrites, cancelRequested, outsideSession>>

\* the user presses a key the shell's useInput handler looks at
KeyPress ==
  /\ sess.pc # "crashed" /\ shell.mode # "exited"
  /\ \E input \in {"escape", "q"} :
       /\ shell' = useInput(shell, input)
       /\ cancelRequested' =
            (cancelRequested
               \/ (input = "escape" /\ shell.mode = "transfer"
                     /\ sess.state \in {"waiting", "sending", "receiving"}
                     /\ Running))
  /\ UNCHANGED <<sess, shareKey, rv, connections, destWrites, outsideSession>>

SessionNext ==
  \/ ReceiveStart
  \/ ReceiverFlushed
  \/ SendStart
  \/ ProbeDone
  \/ SenderFlushed
  \/ PeerConnects
  \/ RendezvousTimeout
  \/ Connected
  \/ RendezvousFailed
  \/ ExtractWrites
  \/ PipelineDone
  \/ PipelineFailed
  \/ Settled
  \/ SwarmDestroyed
  \/ SwarmDestroyFailed
  \/ KeyPress

SessionSpecInit ==
  SessionInit /\ AeadIdle /\ CompressIdle /\ DecompressIdle /\ PathIdle /\ KeyIdle
    /\ TarIdle /\ TransferIdle

SessionSpec == SessionSpecInit /\ [][SessionNext]_vars

(* ---------------------------------------------------------------------- *)
(* A source probed and packed, and the archive extracted (tar.test.ts:     *)
(* pipeline(packStream, extractStream)); or an archive of another origin   *)
(* given to the extract stream. The source is /home/src, a file or a       *)
(* directory with up to three levels below it, holding files, directories, *)
(* symbolic links and FIFOs; the destination is the empty directory /out.  *)
(* ---------------------------------------------------------------------- *)
SourceBase == <<"home">>
SourcePath == <<"home", "src">>
DestPath == <<"out">>

FileModes == {420, 438}
DirModes == {493, 448}
FileData == {<<>>, <<7, 8>>}
Umasks == {0, 18}
DirOrders == {<<"a", "b", "c", "d", "e">>, <<"e", "d", "c", "b", "a">>}

FileNodes == {[kind |-> "file", mode |-> m, data |-> d] : m \in FileModes, d \in FileData}
DirNodes == {[kind |-> "dir", mode |-> m, data |-> <<>>] : m \in DirModes}
OtherNodes ==
  {[kind |-> "symlink", mode |-> 511, data |-> <<>>],
   [kind |-> "fifo", mode |-> 420, data |-> <<>>]}

Nothing == {[x \in {} |-> 0]}
At(path, nodes) == {path :> n : n \in nodes}
Below(dirs, subtrees) == {d @@ t : d \in dirs, t \in subtrees}

TreeD == Nothing \cup At(<<"home", "src", "a", "c", "d">>, FileNodes \cup OtherNodes \cup DirNodes)
TreeC ==
  Nothing \cup At(<<"home", "src", "a", "c">>, FileNodes \cup OtherNodes)
    \cup Below(At(<<"home", "src", "a", "c">>, DirNodes), TreeD)
TreeE == Nothing \cup At(<<"home", "src", "a", "e">>, FileNodes \cup OtherNodes)
TreeA ==
  Nothing \cup At(<<"home", "src", "a">>, FileNodes \cup OtherNodes)
    \cup Below(Below(At(<<"home", "src", "a">>, DirNodes), TreeC), TreeE)
TreeB == Nothing \cup At(<<"home", "src", "b">>, FileNodes \cup OtherNodes \cup DirNodes)
SourceTrees ==
  At(SourcePath, FileNodes)
    \cup {d @@ a @@ b : d \in At(SourcePath, DirNodes), a \in TreeA, b \in TreeB}

HostFs == (SourceBase :> [kind |-> "dir", mode |-> 493, data |-> <<>>]) @@ EmptyFs
SourceFileSystems == {t @@ HostFs : t \in SourceTrees}
EmptyDest == (DestPath :> [kind |-> "dir", mode |-> 493, data |-> <<>>]) @@ EmptyFs

\* entries an archive of another origin may hold
ForeignEntries ==
  {[name |-> [abs |-> a, parts |-> n], type |-> t, size |-> 1, mode |-> 420, data |-> <<9>>] :
     a \in {FALSE}, t \in {"file"},
     n \in {<<"..", "evil">>, <<"a", "..", "..", "evil">>, <<"a", "..", "ok">>, <<"ok">>}}
    \cup {[name |-> [abs |-> TRUE, parts |-> <<"etc", "evil">>], type |-> "file",
            size |-> 1, mode |-> 420, data |-> <<9>>],
           [name |-> [abs |-> FALSE, parts |-> <<"..", "evildir">>], type |-> "directory",
            size |-> 0, mode |-> 493, data |-> <<>>]}
ForeignArchives ==
  {<<e>> : e \in ForeignEntries} \cup {<<e, f>> : e \in ForeignEntries, f \in ForeignEntries}

TarInit ==
  /\ \/ /\ tphase = "start"
        /\ srcFs \in SourceFileSystems
        /\ dirOrder \in DirOrders
        /\ archive = <<>>
     \/ /\ tphase = "packed"
        /\ srcFs = EmptyFs
        /\ dirOrder = <<>>
        /\ archive \in ForeignArchives
  /\ umask \in Umasks
  /\ meta = [totalSize |-> 0, fileCount |-> 0, isDirectory |-> FALSE]
  /\ extracted = 0
  /\ destFs = EmptyDest
  /\ handler = NewEntryHandler

\* const transferMetadata = await getTransferMetadata(path)
Probe ==
  /\ tphase = "start"
  /\ meta' = getTransferMetadata(srcFs, SourcePath, dirOrder)
  /\ tphase' = "probed"
  /\ UNCHANGED <<srcFs, dirOrder, umask, archive, extracted, destFs, handler, outsideTar>>

\* createPackStream(path): the unchanged source is walked and packed
Pack ==
  /\ tphase = "probed"
  /\ archive' = createPackStream(srcFs, SourcePath, dirOrder)
  /\ tphase' = "packed"
  /\ UNCHANGED <<srcFs, dirOrder, umask, meta, extracted, destFs, handler, outsideTar>>

\* extract.on('entry', ...): the next entry; next(error) fails the stream
ExtractNext ==
  /\ tphase = "packed"
  /\ extracted < Len(archive)
  /\ LET r == ExtractEntry(destFs, DestPath, umask, archive[extracted + 1])
     IN  /\ destFs' = r.fs
         /\ tphase' = IF r.ok THEN "packed" ELSE "failed"
  /\ extracted' = extracted + 1
  /\ UNCHANGED <<srcFs, dirOrder, umask, meta, archive, handler, outsideTar>>

\* the end of the archive: the extract stream finishes
ExtractFinish ==
  /\ tphase = "packed"
  /\ extracted = Len(archive)
  /\ handler.pc = "idle"
  /\ tphase' = "done"
  /\ UNCHANGED <<srcFs, dirOrder, umask, meta, archive, extracted, destFs, handler,
                 outsideTar>>

TarNext == Probe \/ Pack \/ ExtractNext \/ ExtractFinish

TarSpecInit ==
  TarInit /\ AeadIdle /\ CompressIdle /\ DecompressIdle /\ PathIdle /\ KeyIdle
    /\ SessionIdle /\ TransferIdle

TarSpec == TarSpecInit /\ [][TarNext]_vars

(* ---------------------------------------------------------------------- *)
(* The 'entry' handler of createExtractStream step by step: tar-stream     *)
(* emits 'entry' for the next header when next() was called for the entry  *)
(* before it, and hands the handler the body as a stream.                  *)
(* ---------------------------------------------------------------------- *)
ExtractInit ==
  /\ tphase = "packed"
  /\ \/ /\ srcFs \in SourceFileSystems
        /\ dirOrder \in DirOrders
        /\ archive = createPackStream(srcFs, SourcePath, dirOrder)
        /\ meta = getTransferMetadata(srcFs, SourcePath, dirOrder)
        /\ umask = 0
     \/ /\ srcFs = EmptyFs
        /\ dirOrder = <<>>
        /\ archive \in ForeignArchives
        /\ meta = [totalSize |-> 0, fileCount |-> 0, isDirectory |-> FALSE]
        /\ umask \in Umasks
  /\ extracted = 0
  /\ destFs = EmptyDest
  /\ handler = NewEntryHandler

\* extract.on('entry', ...) fires for the next header
EntryStart ==
  /\ tphase = "packed"
  /\ handler.pc = "idle"
  /\ extracted < Len(archive)
  /\ handler' = [pc |-> "parent", before |-> destFs, piped |-> 0]
  /\ UNCHANGED <<tphase, srcFs, dirOrder, umask, meta, archive, extracted, destFs,
                 outsideTar>>

\* await mkdir(parentDir, { recursive: true }), then by header.type:
\* createWriteStream and stream.pipe, or mkdir, or stream.resume(); an error
\* is caught and given to next, which fails the extract stream
EntryOpen ==
  /\ tphase = "packed"
  /\ handler.pc = "parent"
  /\ LET header == archive[extracted + 1]
         outputPath == join(DestPath, header.name)
         parent == Mkdirp(destFs, dirname(outputPath), 511, umask)
         r == IF ~parent.ok THEN parent
              ELSE IF header.type = "file"
                   THEN WriteFile(parent.fs, outputPath, header.mode, umask, <<>>)
              ELSE IF header.type = "directory"
                   THEN Mkdirp(parent.fs, outputPath, header.mode, umask)
              ELSE parent
     IN  /\ destFs' = r.fs
         /\ IF r.ok
            THEN /\ handler' = [handler EXCEPT
                       !.pc = IF header.type = "file" THEN "piping" ELSE "made"]
                 /\ UNCHANGED <<tphase, extracted>>
            ELSE /\ handler' = NewEntryHandler
                 /\ tphase' = "failed"
                 /\ extracted' = extracted + 1
  /\ UNCHANGED <<srcFs, dirOrder, umask, meta, archive, outsideTar>>

\* stream.pipe(writeStream): the next byte of the body reaches the file
EntryPipe ==
  /\ tphase = "packed"
  /\ handler.pc = "piping"
  /\ handler.piped < Len(archive[extracted + 1].data)
  /\ LET header == archive[extracted + 1]
         outputPath == join(DestPath, header.name)
     IN  destFs' = [destFs EXCEPT
                     ![outputPath].data = Append(@, header.data[handler.piped + 1])]
  /\ handler' = [handler EXCEPT !.piped = @ + 1]
  /\ UNCHANGED <<tphase, srcFs, dirOrder, umask, meta, archive, extracted, outsideTar>>

\* next(): the handler is through with the entry
EntryNext ==
  /\ tphase = "packed"
  /\ \/ handler.pc = "made"
     \/ handler.pc = "piping" /\ FinishAwaited(handler, archive[extracted + 1])
  /\ handler' = [handler EXCEPT !.pc = "idle"]
  /\ extracted' = extracted + 1
  /\ UNCHANGED <<tphase, srcFs, dirOrder, umask, meta, archive, destFs, outsideTar>>

ExtractSteps == EntryStart \/ EntryOpen \/ EntryPipe \/ EntryNext \/ ExtractFinish

ExtractSpecInit ==
  ExtractInit /\ AeadIdle /\ CompressIdle /\ DecompressIdle /\ PathIdle /\ KeyIdle
    /\ SessionIdle /\ TransferIdle

ExtractSpec == ExtractSpecInit /\ [][ExtractSteps]_vars

(* ---------------------------------------------------------------------- *)
(* One transfer, from the moment both sides have their socket: the sender  *)
(* writes the preamble and pipes pack -> compress -> encrypt -> progress   *)
(* -> socket; the receiver pipes socket -> metadata extractor -> progress  *)
(* -> decrypt -> decompress -> extract. The pack stream's output is the    *)
(* byte sequence cinput (it always ends with the end-of-archive block that *)
(* pack.finalize() writes), and what reaches the extract stream is         *)
(* decomp.out. The receiver is given the whole socket stream in any        *)
(* segmentation, from the honest sender or with another preamble in front  *)
(* of the same payload.                                                    *)
(* ---------------------------------------------------------------------- *)
\* the sources: what getTransferMetadata returns and what the pack stream
\* produces for an empty directory (the end-of-archive block alone) and for a
\* file (its entry, then the end-of-archive block)
Sources ==
  {[metadata |-> [NoMetadata EXCEPT !.isDirectory = TRUE], archive |-> <<0>>],
   [metadata |-> [NoMetadata EXCEPT !.totalSize = 19, !.fileCount = 1],
    archive |-> <<10, 0>>]}

\* a path shouldCompress accepts and one it refuses
TransferPaths == {<<"g">>, <<"g", ".", "g", "z">>}

\* the nonce prefix randomBytes returns; it holds the newline byte
TransferPrefixes == {<<10, 90>>}

\* preambles of a peer that is not the honest sender: a well-formed one with
\* totalSize 0 and a 'compressed' field that contradicts the flag byte, the
\* JSON text null, and one that is no JSON text
ForgedPreambles ==
  {JSONstringify([totalSize |-> 0, fileCount |-> 3, isDirectory |-> TRUE,
                  compressed |-> ~shouldCompress(srcPath)]),
   LettersNull,
   BraceOpen}

\* the preamble the sender has written and the bytes after its newline
PreambleLength == Cardinality({i \in 1..Len(sock.kinds) : sock.kinds[i] = "preamble"})

Payload == SubSeq(sock.bytes, PreambleLength + 1, Len(sock.bytes))

TransferInit ==
  /\ \E s \in Sources :
       /\ snd = [NewSender EXCEPT !.pc = "connected", !.key = 1,
                                  !.metadata = s.metadata]
       /\ cinput = s.archive
  /\ sock = NewSocket
  /\ rcv = NewReceiver
  /\ srcPath \in TransferPaths
  /\ srcIsDirectory = snd.metadata.isDirectory
  /\ compressDecision = "unset"
  /\ cphase = "idle"
  /\ cwritten = 0
  /\ cmp = NewCompressStream(FALSE)
  /\ zstd = NewZstdStream(FALSE)

\* startSending from setState('sending') to await pipeline(...): the preamble
\* is written to the socket, then the three streams are created and piped
StartTransfer ==
  /\ snd.pc = "connected"
  /\ LET metadataJson ==
           JSONstringify([snd.metadata EXCEPT !.compressed = shouldCompress(srcPath)])
             \o Newline
     IN  sock' = SocketWrite(sock, metadataJson, "preamble")
  /\ cmp' = NewCompressStream(shouldCompress(srcPath))
  /\ zstd' = NewZstdStream(FALSE)
  /\ cphase' = "open"
  /\ \E p \in TransferPrefixes : enc' = NewEncryptStream(snd.key, p)
  /\ written' = <<>>
  /\ snd' = [snd EXCEPT !.pc = "piping", !.state = "sending"]
  /\ UNCHANGED <<phase, plain, wire, tamper, dec, fed, cinput, cwritten, rcv,
                 decompressVars, pathVars, keyVars, sessionVars, tarVars>>

\* what a transform has pushed beyond what it had pushed before
Pushed(before, after) == SubSeq(after.out, Len(before.out) + 1, Len(after.out))

\* the compress stream's next n bytes go through encryptStream.write, the
\* progress tracker and socket.write
EncryptWrite ==
  /\ snd.pc = "piping"
  /\ \E n \in 1..(Len(cmp.out) - Len(written)) :
       LET chunk == SubSeq(cmp.out, Len(written) + 1, Len(written) + n)
           e == EncTransform(enc, chunk)
       IN  /\ written' = written \o chunk
           /\ enc' = e
           /\ sock' = SocketWrite(sock, Pushed(enc, e), "encrypt")
           /\ snd' = [snd EXCEPT !.tracker =
                        IF Pushed(enc, e) = <<>> THEN @
                        ELSE SendProgressTransform(@, snd.metadata.totalSize,
                                                   Pushed(enc, e))]
  /\ UNCHANGED <<phase, plain, wire, tamper, dec, fed, rcv, compressVars,
                 decompressVars, pathVars, keyVars, sessionVars, tarVars>>

\* the compress stream has ended: encryptStream.end() flushes, the socket is
\* ended, await pipeline(...) resolves and setState('done') runs
EncryptEnd ==
  /\ snd.pc = "piping"
  /\ cphase = "finished"
  /\ Len(written) = Len(cmp.out)
  /\ LET e == EncFlush(enc)
     IN  /\ enc' = e
         /\ sock' = [SocketWrite(sock, Pushed(enc, e), "encrypt") EXCEPT !.ended = TRUE]
         /\ snd' = [snd EXCEPT !.pc = "done", !.state = "done",
                               !.tracker = SendProgressTransform(@, snd.metadata.totalSize,
                                                                 Pushed(enc, e))]
  /\ UNCHANGED <<phase, plain, written, wire, tamper, dec, fed, rcv, compressVars,
                 decompressVars, pathVars, keyVars, sessionVars, tarVars>>

\* startReceiving from the connection to await pipeline(...): the streams are
\* created; `stream` is what the peer sends
ReceiveConnected ==
  /\ rcv.pc = "idle"
  /\ sock.ended
  /\ \E pre \in {SubSeq(sock.bytes, 1, PreambleLength - 1)} \cup ForgedPreambles :
       rcv' = [rcv EXCEPT !.pc = "piping", !.state = "receiving",
                          !.stream = pre \o Newline \o Payload]
  /\ \E k \in Keys : dec' = NewDecryptStream(k)
  /\ decomp' = NewDecompressStream
  /\ unzstd' = NewUnzstdStream(FALSE)
  /\ dphase' = "open"
  /\ dfed' = 0
  /\ UNCHANGED <<phase, plain, written, enc, wire, tamper, fed, dpiped, dinput, snd,
                 sock, compressVars, pathVars, keyVars, sessionVars, tarVars>>

\* where the peer may close its socket early: at once, inside the preamble
\* line, right after it, inside the first length field, after the first
\* chunk, before the end marker and inside it
AbortPoints ==
  {0, PreambleLength - 1, PreambleLength,
   PreambleLength + NONCE_PREFIX_SIZE + 1,
   PreambleLength + NONCE_PREFIX_SIZE + LENGTH_SIZE + CHUNK_SIZE + TAG_SIZE,
   Len(sock.bytes) - LENGTH_SIZE, Len(sock.bytes) - 1}

\* as ReceiveConnected, with a peer that sends the sender's bytes up to an
\* abort point and then ends its socket; whether the Zstandard decoder
\* takes the end inside a frame as an error is the library's choice
ReceiveAborted ==
  /\ rcv.pc = "idle"
  /\ sock.ended
  /\ \E n \in AbortPoints :
       rcv' = [rcv EXCEPT !.pc = "piping", !.state = "receiving",
                          !.stream = Take(sock.bytes, n)]
  /\ dec' = NewDecryptStream(snd.key)
  /\ decomp' = NewDecompressStream
  /\ \E l \in BOOLEAN : unzstd' = NewUnzstdStream(l)
  /\ dphase' = "open"
  /\ dfed' = 0
  /\ UNCHANGED <<phase, plain, written, enc, wire, tamper, fed, dpiped, dinput, snd,
                 sock, compressVars, pathVars, keyVars, sessionVars, tarVars>>

\* 'data' of the socket with the next n bytes: metadataExtractor, then
\* progressTracker and decryptStream for what the extractor pushes; an error
\* given to a callback makes the pipeline destroy every stream. What the
\* decrypt stream pushed is handed to decompress.write before the socket's
\* next 'data' event
SocketData ==
  /\ rcv.pc = "piping"
  /\ dphase # "destroyed"
  /\ dfed = Len(dec.out)
  /\ \E n \in 1..(Len(rcv.stream) - rcv.got) :
       LET chunk == SubSeq(rcv.stream, rcv.got + 1, rcv.got + n)
           r == MetadataExtractorTransform(rcv.extractor, chunk)
           d == IF r.pushed = <<>> THEN dec ELSE DecTransform(dec, r.pushed)
           failure == IF r.x.err # "none" THEN r.x.err ELSE d.err
       IN  /\ dec' = d
           /\ dphase' = IF failure = "none" THEN dphase ELSE "destroyed"
           /\ rcv' = [rcv EXCEPT
                 !.got = @ + n,
                 !.extractor = r.x,
                 !.forwarded = @ \o r.pushed,
                 !.split = @ \/ (rcv.got > 0 /\ ~rcv.extractor.metadataReceived
                                   /\ r.x.metadataReceived),
                 !.tracker =
                    IF r.pushed = <<>> THEN @
                    ELSE ReceiveProgressTransform(@, Truthy(r.x.transferMetadata),
                                                  r.x.transferMetadata.totalSize,
                                                  r.pushed),
                 !.error = failure]
  /\ UNCHANGED <<phase, plain, written, enc, wire, tamper, fed, dpiped, dinput, dfed,
                 decomp, unzstd, snd, sock, compressVars, pathVars, keyVars,
                 sessionVars, tarVars>>

\* 'end' of the socket: the extractor, the tracker and the decrypt stream
\* define no flush and end in turn
SocketEnd ==
  /\ rcv.pc = "piping"
  /\ dphase # "destroyed"
  /\ rcv.got = Len(rcv.stream)
  /\ ~rcv.upstreamEnded
  /\ rcv' = [rcv EXCEPT !.upstreamEnded = TRUE]
  /\ UNCHANGED <<aeadVars, compressVars, decompressVars, pathVars, keyVars,
                 sessionVars, tarVars, snd, sock>>

\* the extract stream has finished: await pipeline(...) resolves
ReceiveDone ==
  /\ rcv.pc = "piping"
  /\ dphase = "finished"
  /\ rcv' = [rcv EXCEPT !.pc = "done", !.state = "done"]
  /\ UNCHANGED <<aeadVars, compressVars, decompressVars, pathVars, keyVars,
                 sessionVars, tarVars, snd, sock>>

\* the extract stream got a part of an archive and then the end: tar-stream
\* may report 'Unexpected end of data' (it does when the end falls inside a
\* header or a file body), which makes await pipeline(...) reject
ExtractRejects ==
  /\ rcv.pc = "piping"
  /\ dphase = "finished"
  /\ decomp.out # <<>> /\ decomp.out # cinput
  /\ rcv' = [rcv EXCEPT !.pc = "error", !.state = "error", !.error = "extract"]
  /\ UNCHANGED <<aeadVars, compressVars, decompressVars, pathVars, keyVars,
                 sessionVars, tarVars, snd, sock>>

\* the streams were destroyed with an error: await pipeline(...) rejects with
\* the first one and the catch block runs
ReceiveFailed ==
  /\ rcv.pc = "piping"
  /\ dphase = "destroyed"
  /\ rcv' = [rcv EXCEPT !.pc = "error", !.state = "error",
                        !.error = IF @ # "none" THEN @ ELSE decomp.err]
  /\ UNCHANGED <<aeadVars, compressVars, decompressVars, pathVars, keyVars,
                 sessionVars, tarVars, snd, sock>>

TransferNext ==
  \/ StartTransfer
  \/ CompressWrite
  \/ ZstdDrain
  \/ CompressEnd
  \/ ZstdData
  \/ ZstdEnd
  \/ EncryptWrite
  \/ EncryptEnd
  \/ ReceiveConnected
  \/ ReceiveAborted
  \/ SocketData
  \/ SocketEnd
  \/ DecompressWrite
  \/ UnzstdDrain
  \/ DecompressEnd
  \/ UnzstdData
  \/ UnzstdEnd
  \/ UnzstdError
  \/ ReceiveDone
  \/ ExtractRejects
  \/ ReceiveFailed

TransferSpecInit ==
  TransferInit /\ AeadIdle /\ DecompressIdle /\ KeyIdle /\ SessionIdle /\ TarIdle

TransferSpec == TransferSpecInit /\ [][TransferNext]_vars

(* ---------------------------------------------------------------------- *)
(* Properties of the AEAD stream codec (checked under Spec).               *)
(* ---------------------------------------------------------------------- *)
IsPrefixOf(a, b) == Len(a) <= Len(b) /\ a = Take(b, Len(a))

\* the decrypt stream got the encoder's bytes, all of them, unchanged
Untampered == phase \in {"decode", "closed"} /\ tamper.kind = "none"

\* the decrypt stream has seen end-of-input or has been destroyed by an error
DecClosed == phase = "closed" /\ enc.err = "none"

\* C1: AEAD roundtrip. Decoding, under the same key, the unmodified output of an
\* encrypt stream that was given plaintext p in any segmentation never errors,
\* emits only a prefix of p while running and exactly p once the input has ended.
C1_Roundtrip ==
  (Untampered /\ dec.key = enc.key) =>
     /\ dec.err = "none"
     /\ IsPrefixOf(dec.out, plain)
     /\ DecClosed => dec.out = plain

\* a plaintext of two full chunks and a short one has made the round trip
C1_Witness ==
  /\ Untampered /\ dec.key = enc.key /\ DecClosed
  /\ Len(plain) > 2 * CHUNK_SIZE /\ Len(plain) % CHUNK_SIZE # 0
  /\ dec.counter = 3
  /\ dec.out = plain

\* C2 as stated: for every plaintext, the empty one included, decoding under
\* another key ends in an authentication error with nothing emitted.
C2_WrongKeyAlwaysFails ==
  (Untampered /\ dec.key # enc.key /\ DecClosed) =>
     (dec.err = "auth" /\ dec.out = <<>>)

\* C2 amended: for every non-empty plaintext, decoding under another key ends in
\* an authentication error raised on the first chunk (counter 0), and no
\* plaintext byte is ever emitted; for the empty plaintext nothing is emitted
\* either, but the stream holds no chunk and no error is raised.
C2_WrongKeyNonEmpty ==
  (Untampered /\ dec.key # enc.key) =>
     /\ dec.out = <<>> /\ dec.emitted = <<>> /\ dec.counter = 0
     /\ (DecClosed /\ plain # <<>>) => dec.err = "auth"

\* a multi-chunk plaintext was refused under the wrong key
C2_Witness ==
  /\ Untampered /\ dec.key # enc.key /\ DecClosed
  /\ Len(plain) > CHUNK_SIZE
  /\ dec.err = "auth" /\ dec.out = <<>>

\* C3: tamper detection, on the streams that hold at least one chunk. Whenever
\* one bit of the encoded stream (nonce prefix, length field, ciphertext, tag or
\* end marker) was inverted, the decrypt stream, run to end-of-input, ends in an
\* error.
C3_BitFlipDetected ==
  (DecClosed /\ tamper.kind = "flip" /\ plain # <<>>) => dec.err # "none"

C5_TruncationDetected ==
  (DecClosed /\ fed = Len(wire) /\ ~dec.ended) => dec.err # "none"

\* C6: trailing bytes. When input bytes were received after the end marker, in
\* the same write or a later one, the stream has failed with an error.
C6_TrailingBytesRejected ==
  (DecClosed /\ dec.ended /\ dec.trailing > 0) => dec.err # "none"

\* C7: empty-input encoder output. An encrypt stream ended without having been
\* given a plaintext byte has output the nonce prefix and the end marker.
C7_EmptyInputOutput ==
  (phase = "transit" /\ plain = <<>>) =>
     enc.out = enc.noncePrefix \o Zeros(LENGTH_SIZE)

\* the chunk lengths read from an encoded stream (after the nonce prefix), up to
\* the first zero length; `ok` iff every field and body read was complete
RECURSIVE ParseChunks(_, _)
ParseChunks(bytes, lens) ==
  IF Len(bytes) < LENGTH_SIZE THEN [ok |-> FALSE, lens |-> lens, rest |-> bytes]
  ELSE LET l == ReadUIntBE(bytes, LENGTH_SIZE)
           body == Drop(bytes, LENGTH_SIZE)
       IN  IF l = 0 THEN [ok |-> TRUE, lens |-> lens, rest |-> body]
           ELSE IF Len(body) < l + TAG_SIZE
                THEN [ok |-> FALSE, lens |-> lens, rest |-> body]
                ELSE ParseChunks(Drop(body, l + TAG_SIZE), Append(lens, l))

\* floor(n / CHUNK_SIZE) full chunks, then the remainder if it is not zero
ExpectedChunkLens(n) ==
  [i \in 1..(n \div CHUNK_SIZE) |-> CHUNK_SIZE]
    \o (IF n % CHUNK_SIZE # 0 THEN <<n % CHUNK_SIZE>> ELSE <<>>)

\* C8: chunking policy. For n > 0 input bytes in any segmentation the finished
\* output is the nonce prefix, floor(n / CHUNK_SIZE) chunks of length CHUNK_SIZE,
\* one chunk of length n mod CHUNK_SIZE iff that is not zero, and the end marker
\* as the last bytes; no chunk has length 0 or more than CHUNK_SIZE.
C8_ChunkingPolicy ==
  (phase = "transit" /\ Len(plain) > 0) =>
     LET parsed == ParseChunks(Drop(enc.out, NONCE_PREFIX_SIZE), <<>>)
     IN  /\ Len(enc.out) >= NONCE_PREFIX_SIZE
         /\ Take(enc.out, NONCE_PREFIX_SIZE) = enc.noncePrefix
         /\ parsed.ok
         /\ parsed.rest = <<>>
         /\ parsed.lens = ExpectedChunkLens(Len(plain))
         /\ \A i \in 1..Len(parsed.lens) : parsed.lens[i] \in 1..CHUNK_SIZE

\* two full chunks and a short final chunk were emitted
C8_Witness ==
  /\ phase = "transit"
  /\ Len(plain) = 2 * CHUNK_SIZE + 1
  /\ ParseChunks(Drop(enc.out, NONCE_PREFIX_SIZE), <<>>).lens = <<CHUNK_SIZE, CHUNK_SIZE, 1>>

\* the decrypt stream given the first n bytes of the channel in one write
DecodedAtOnce(n) == DecTransform(NewDecryptStream(dec.key), Take(wire, n))

\* C35: segmentation independence of the decoder. For every channel content
\* (the encoder's output, with a bit inverted, cut, or with bytes appended,
\* under the right and under a wrong key) and every way of splitting it into
\* writes, the plaintext chunks the decrypt stream has emitted, its error
\* and its end-marker state are those of a stream that was given the same
\* bytes in one write; once the stream is closed they are those of the whole
\* channel content in one write.
C35_SegmentationIndependent ==
  /\ phase \in {"decode", "closed"} =>
        /\ dec.emitted = DecodedAtOnce(fed).emitted
        /\ dec.out = DecodedAtOnce(fed).out
        /\ dec.err = DecodedAtOnce(fed).err
        /\ dec.ended = DecodedAtOnce(fed).ended
  /\ DecClosed =>
        /\ dec.emitted = DecodedAtOnce(Len(wire)).emitted
        /\ dec.out = DecodedAtOnce(Len(wire)).out
        /\ dec.err = DecodedAtOnce(Len(wire)).err
        /\ dec.ended = DecodedAtOnce(Len(wire)).ended

\* a tampered stream of which a write ended inside the second chunk's body
C35_Witness ==
  /\ phase = "decode"
  /\ tamper.kind # "none"
  /\ Len(dec.emitted) = 1
  /\ dec.chunkLength # NULL
  /\ 0 < Len(dec.buffer) /\ Len(dec.buffer) < dec.chunkLength + TAG_SIZE

\* the adversary moved, repeated or removed a chunk
ChunkDisplaced == tamper.kind \in {"swap", "dup", "drop"}

\* the plaintext of the first k chunks
PlainOfChunks(k) ==
  IF k * CHUNK_SIZE >= Len(plain) THEN plain ELSE Take(plain, k * CHUNK_SIZE)

\* C36: chunk position binding (checked under ChunkSpec). When two chunks of
\* an encoded stream were swapped, or a chunk was duplicated or removed
\* before the last one, the decrypt stream emits the chunks before the first
\* displaced one and nothing else, and it ends with an authentication error
\* raised at that chunk.
C36_PositionBinding ==
  ChunkDisplaced =>
    /\ Len(dec.emitted) <= tamper.pos
    /\ IsPrefixOf(dec.out, PlainOfChunks(tamper.pos))
    /\ dec.err \in {"none", "auth"}
    /\ dec.err = "auth" => dec.counter = tamper.pos
    /\ DecClosed =>
          /\ dec.err = "auth"
          /\ Len(dec.emitted) = tamper.pos
          /\ dec.out = PlainOfChunks(tamper.pos)

\* the second and third chunk were swapped: the first one was emitted
C36_Witness ==
  /\ tamper = [kind |-> "swap", pos |-> 1]
  /\ DecClosed
  /\ dec.err = "auth"
  /\ Len(dec.emitted) = 1
  /\ fed < Len(wire)

\* the adversary ended the stream early
EndedEarly == tamper.kind \in {"cut", "droptail", "endmark"}

\* C37: stream completeness (checked under ChunkSpec). When the decrypt
\* stream has finished without error on a stream that an adversary without
\* the key cut, or ended with an end marker after an earlier chunk, the
\* plaintext it has emitted is the whole plaintext.
C37_StreamComplete ==
  (EndedEarly /\ DecClosed /\ dec.err = "none") => dec.out = plain

(* ---------------------------------------------------------------------- *)
(* Properties of the nonce counter (checked under Spec and CounterSpec).   *)
(* ---------------------------------------------------------------------- *)
\* the chunks [ciphertext, tag] that are complete in `bytes` from offset pos on
RECURSIVE Frames(_, _, _)
Frames(bytes, pos, acc) ==
  IF Len(bytes) - pos < LENGTH_SIZE THEN acc
  ELSE LET l == ReadUIntBE(SubSeq(bytes, pos + 1, pos + LENGTH_SIZE), LENGTH_SIZE)
           body == pos + LENGTH_SIZE
       IN  IF l = 0 \/ Len(bytes) - body < l + TAG_SIZE THEN acc
           ELSE Frames(bytes, body + l + TAG_SIZE,
                       Append(acc, [ciphertext |-> SubSeq(bytes, body + 1, body + l),
                                    tag |-> SubSeq(bytes, body + l + 1,
                                                   body + l + TAG_SIZE)]))

\* prefix || BigEndian(i) in the counter field
NonceOf(prefix, i) == prefix \o UIntBE(i, NONCE_SIZE - NONCE_PREFIX_SIZE)

\* the i-th (from 0) chunk of the bytes written to the encrypt stream
WrittenChunk(i) ==
  SubSeq(written, i * CHUNK_SIZE + 1,
         IF (i + 1) * CHUNK_SIZE <= Len(written) THEN (i + 1) * CHUNK_SIZE
         ELSE Len(written))

\* C26: nonce sequence. The i-th chunk the encrypt stream has emitted
\* (from 0, the final short chunk included) is the encryption of the i-th
\* chunk of the input under prefix || BigEndian(i), no two emitted chunks
\* share a nonce, and the i-th chunk the decrypt stream has parsed was
\* verified under counter value i.
C26_NonceSequence ==
  /\ LET frames == Frames(enc.out, NONCE_PREFIX_SIZE, <<>>)
     IN  /\ \A i \in 1..Len(frames) :
              LET nonce == NonceOf(enc.noncePrefix, i - 1)
              IN  /\ frames[i].ciphertext = GcmEncrypt(enc.key, nonce, WrittenChunk(i - 1))
                  /\ frames[i].tag = GcmTag(enc.key, nonce, frames[i].ciphertext)
         /\ \A i, j \in 1..Len(frames) :
              i # j => NonceOf(enc.noncePrefix, i - 1) # NonceOf(enc.noncePrefix, j - 1)
  /\ \A i \in 1..Len(dec.emitted) :
       LET e == dec.emitted[i]
       IN  /\ e.counter = i - 1
           /\ e.tag = GcmTag(dec.key, NonceOf(dec.noncePrefix, i - 1), e.ciphertext)

\* two full chunks and the short chunk of the flush were emitted, and the
\* decrypt stream has parsed and verified all three
C26_Witness ==
  /\ Len(plain) = 2 * CHUNK_SIZE + 1
  /\ Len(Frames(enc.out, NONCE_PREFIX_SIZE, <<>>)) = 3
  /\ Len(dec.emitted) = 3
  /\ dec.emitted[3].counter = 2

\* C27: counter exhaustion. The chunks emitted use the counter values
\* 0, 1, 2, ... in this order without wrapping: there are never more chunks
\* than counter values, each verifies under its own counter value, and a
\* chunk that would need a counter value that does not fit makes the stream
\* fail with nothing emitted for it.
C27_CounterNeverWraps ==
  /\ Len(enc.emitted) <= CounterSpace
  /\ \A i \in 1..Len(enc.emitted) :
       /\ enc.emitted[i].counter = i - 1
       /\ enc.emitted[i].nonce = NonceOf(enc.noncePrefix, i - 1)
  /\ Len(written) >= (CounterSpace + 1) * CHUNK_SIZE =>
       /\ enc.err = "range"
       /\ phase = "closed"
       /\ Len(enc.emitted) = CounterSpace
  /\ enc.err = "range" => enc.counter = CounterSpace

\* every counter value was used and the next chunk was refused
C27_Witness ==
  /\ enc.err = "range"
  /\ enc.counter = CounterSpace
  /\ Len(enc.emitted) = CounterSpace
  /\ Len(enc.out) = NONCE_PREFIX_SIZE + CounterSpace * (LENGTH_SIZE + CHUNK_SIZE + TAG_SIZE)

(* ---------------------------------------------------------------------- *)
(* Properties of the compression framing (checked under CompressSpec).     *)
(* ---------------------------------------------------------------------- *)
\* C9: compression flag wire contract. The output of a finished compress stream
\* begins with 0x01 if compression is enabled and with 0x00 if it is not.
C9_FlagByte ==
  cphase = "finished" =>
     /\ Len(cmp.out) >= 1
     /\ cmp.out[1] = (IF cmp.enabled THEN FLAG_COMPRESSED ELSE FLAG_RAW)

\* C10: the flag byte is pushed before any payload byte and exactly once, in both
\* modes, also when the stream is ended without any write.
C10_FlagOnceFirst ==
  /\ \A i \in 1..Len(cmp.kinds) : (cmp.kinds[i] = "flag") <=> (i = 1)
  /\ cphase = "finished" => Len(cmp.kinds) >= 1

(* ---------------------------------------------------------------------- *)
(* Properties of the decompress stream (checked under DecompressSpec).     *)
(* ---------------------------------------------------------------------- *)
\* C11: compression roundtrip. With the compress stream of either mode piped
\* into the decompress stream, under every segmentation, the decompress stream
\* never fails of its own, its output is always a prefix of the input p, its
\* flush can always finish, and once it has finished its output is exactly p.
C11_CompressRoundtrip ==
  (dpiped /\ cphase # "destroyed") =>
     /\ decomp.err = "none"
     /\ IsPrefixOf(decomp.out, cinput)
     /\ ~ENABLED UnzstdError
     /\ dphase = "flushing" => ENABLED (UnzstdData \/ UnzstdEnd)
     /\ dphase = "finished" => decomp.out = cinput

C11_Witness ==
  /\ dpiped
  /\ cmp.enabled
  /\ Len(cinput) = MaxPlain
  /\ cinput[MaxPlain] # 0
  /\ dphase = "finished"
  /\ decomp.out = cinput

\* C12: the decompress stream takes exactly one byte, the first of its input,
\* as the flag before it does anything else; if that byte is neither 0x00 nor
\* 0x01 the stream fails with 'Invalid compression flag' and emits nothing of
\* the rest of its input.
C12_InvalidFlagRejected ==
  /\ decomp.flag = NULL => decomp.out = <<>> /\ unzstd.input = <<>> /\ ~decomp.hasZstd
  /\ decomp.flag # NULL => dfed >= 1 /\ decomp.flag = DSource[1]
  /\ (dfed >= 1 /\ DSource[1] \notin {FLAG_RAW, FLAG_COMPRESSED}) =>
        /\ decomp.err = "flag"
        /\ dphase = "destroyed"
        /\ decomp.out = <<>>
        /\ unzstd.input = <<>>

C12_Witness ==
  /\ ~dpiped
  /\ Len(dinput) = 4
  /\ dinput[1] = 153
  /\ dfed = Len(dinput)
  /\ decomp.err = "flag"

(* ---------------------------------------------------------------------- *)
(* Properties of the compression decision (checked under PathSpec).        *)
(* ---------------------------------------------------------------------- *)
\* C13: shouldCompress(path) is false exactly when the top-level source is a
\* file whose extension, compared case-insensitively, is in the skip set; it
\* is true for every file with an unknown or missing extension and for every
\* directory source, whatever its name.
C13_SkipOnlyCompressedFiles ==
  compressDecision # "unset" =>
     ((compressDecision = "no") <=>
        (~srcIsDirectory /\ toLowerCase(extname(srcPath)) \in COMPRESSED_EXTENSIONS))

(* ---------------------------------------------------------------------- *)
(* Properties of the topic key (checked under KeySpec).                    *)
(* ---------------------------------------------------------------------- *)
\* C14: key roundtrip. For every topic of KEY_SIZE bytes, parseTopicKey of its
\* display key returns the topic; the display key is base64url without
\* padding, of ceil(8 * KEY_SIZE / 6) characters (43 for 32 bytes).
C14_KeyRoundtrip ==
  /\ kphase \in {"shown", "parsed"} =>
        /\ Len(displayKey) = (8 * KEY_SIZE + 5) \div 6
        /\ \A i \in 1..Len(displayKey) :
              \E j \in 1..64 : Base64UrlAlphabet[j] = displayKey[i]
  /\ kphase = "parsed" => parsedKey = [ok |-> TRUE, topic |-> topic]

C14_Witness ==
  /\ kphase = "parsed"
  /\ topic = <<255, 165, 90, 1, 0>>
  /\ parsedKey.topic = topic
  /\ displayKey[1] = "_"

(* ---------------------------------------------------------------------- *)
(* Properties of the session and its rendezvous (checked under             *)
(* SessionSpec).                                                           *)
(* ---------------------------------------------------------------------- *)
\* C15: for a display key that does not decode to exactly KEY_SIZE bytes,
\* parseTopicKey fails with the invalid-key error, and the receive session
\* given it ends in state 'error' without ever creating a swarm, joining a
\* topic or writing to the destination.
C15_InvalidKeyRejected ==
  (sess.role = "receive" /\ Len(BufferFromBase64Url(shareKey)) # KEY_SIZE) =>
     /\ ~rv.created
     /\ ~rv.joined
     /\ destWrites = 0
     /\ sess.pc \in {"start", "returned"}
     /\ sess.pc = "returned" =>
           sess.state = "error" /\ sess.error = "Invalid key" /\ sess.failed

C15_Witness ==
  /\ sess.role = "receive"
  /\ Len(shareKey) = 8
  /\ shareKey[8] = "A"
  /\ sess.pc = "returned"
  /\ sess.error = "Invalid key"

\* C19: receiver rendezvous ordering. The 'connection' listener is registered
\* before the topic is joined, so a connection event emitted at any point
\* after the join, also while the flush is pending, resolves connectionPromise
\* with its socket (unless the timeout has fired before), and the session
\* that awaits the promise gets that socket.
C19_ReceiverCatchesConnection ==
  sess.role = "receive" =>
     /\ rv.joined => rv.promise # "none"
     /\ (connections >= 1 /\ rv.timer # "fired") =>
           rv.promise = "resolved" /\ rv.socket = 1
     /\ (sess.pc \in {"transfer", "settling", "cleanup"}) => sess.socket = rv.socket

C19_Witness ==
  /\ sess.role = "receive"
  /\ sess.pc = "flushing"
  /\ connections = 1
  /\ rv.promise = "resolved"
  /\ rv.socket = 1

\* C20: sender rendezvous contract. After the sender has joined the topic, a
\* connection event emitted at any time, also during the awaited announce
\* flush, makes waitForPeer() resolve with the first connected socket (unless
\* the timeout has fired before).
C20_SenderCatchesConnection ==
  (sess.role = "send" /\ rv.promise # "none" /\ connections >= 1 /\ rv.timer # "fired") =>
     rv.promise = "resolved" /\ rv.socket = 1

\* C21: rendezvous timeout. The wait for the first connection settles exactly
\* once: resolved with the socket and the timer cleared, or rejected by the
\* timer; once it is rejected no connection event starts a transfer, and the
\* session that has ended has ended in state 'error' with the timeout error.
C21_RendezvousSettlesOnce ==
  /\ rv.promise = "resolved" => rv.timer = "cleared" /\ rv.socket \in 1..connections
  /\ rv.promise = "rejected" <=> rv.timer = "fired"
  /\ rv.promise = "rejected" =>
        /\ sess.pc \notin {"transfer", "settling", "cleanup"}
        /\ sess.state # "done"
        /\ sess.socket = 0
        /\ ~Running => sess.state = "error" /\ sess.error = "Connection timeout"

\* C22: cleanup on every exit path. A session that has created a swarm and
\* has returned, in state 'done' or in state 'error', has destroyed it.
C22_CleanupOnEveryExit ==
  (sess.pc = "returned" /\ rv.created) => rv.destroyed

\* C23: cancellation. Once Escape was pressed while the transfer was running
\* (shell mode 'transfer', session state waiting, sending or receiving), the
\* session does not run to completion, and when it has returned it has ended
\* with a Cancelled error and has destroyed the swarm.
C23_EscapeCancels ==
  cancelRequested =>
     /\ sess.state # "done"
     /\ sess.pc = "returned" =>
           sess.state = "error" /\ sess.error = "Cancelled" /\ rv.destroyed

\* the catch block has run: state 'error' with the error's message, onError
\* called, onComplete not called, the async function returned
Surfaced ==
  sess.failed =>
    /\ sess.state = "error"
    /\ sess.error # "none"
    /\ ~sess.completed
    /\ sess.pc = "returned"

\* a session in state 'done' does not change to 'error', and a session whose
\* callback was called changes no more (no callback is called again)
DoneStaysDone ==
  /\ sess.state = "done" => sess'.state # "error"
  /\ (sess.failed \/ sess.completed) => sess' = sess

\* C31: error surfacing. When the pipeline of a send or receive session
\* fails (or anything else the session awaits) the session state becomes
\* 'error' with the error's message, onError is called exactly once and
\* onComplete never; once the state is 'done' it never changes to 'error',
\* and no session calls both callbacks.
C31_ErrorSurfacing ==
  [](Surfaced /\ ~(sess.completed /\ sess.failed)) /\ [][DoneStaysDone]_vars

\* C39: the shell is in mode 'done', which renders 'Transfer complete!', only
\* after the transfer's onComplete callback was called; a transfer whose
\* onError callback was called does not bring the shell into that mode.
C39_DoneOnlyAfterComplete ==
  /\ shell.mode = "done" => sess.completed
  /\ sess.failed => shell.mode # "done"

(* ---------------------------------------------------------------------- *)
(* Properties of the archive (checked under TarSpec).                      *)
(* ---------------------------------------------------------------------- *)
UnsafeName(name) ==
  \/ name.abs
  \/ \E i \in 1..Len(name.parts) : name.parts[i] = ".."
  \/ ~IsPrefixOf(DestPath, join(DestPath, name))

\* C16: archive path safety. An entry whose name has a '..' component, is
\* absolute or resolves outside the destination makes the extraction fail
\* at that entry, before anything is created for it; every path the
\* extraction has written lies inside the destination.
C16_ExtractStaysInside ==
  /\ \A p \in DOMAIN destFs : p = <<>> \/ IsPrefixOf(DestPath, p)
  /\ \A i \in 1..extracted :
        UnsafeName(archive[i].name) =>
           tphase = "failed" /\ i = extracted /\ join(DestPath, archive[i].name) \notin DOMAIN destFs

SourceIsRegular ==
  /\ SourcePath \in DOMAIN srcFs
  /\ \A p \in DOMAIN srcFs : srcFs[p].kind \in {"file", "dir"}

\* C17: archive roundtrip. For a source that is a regular file or a tree of
\* directories and regular files (nested or empty directories and an empty
\* source directory included), packing it and extracting the archive into
\* the destination leaves there an entry named as the source with the same
\* structure, the same directories, file contents and permission bits, and
\* nothing else.
C17_ArchiveRoundtrip ==
  (tphase = "done" /\ SourceIsRegular) =>
     /\ \A p \in DOMAIN srcFs :
           IsPrefixOf(SourcePath, p) =>
              /\ (DestPath \o relative(SourceBase, p)) \in DOMAIN destFs
              /\ destFs[DestPath \o relative(SourceBase, p)] = srcFs[p]
     /\ \A q \in DOMAIN destFs :
           (IsPrefixOf(DestPath, q) /\ q # DestPath) =>
              (SourceBase \o relative(DestPath, q)) \in DOMAIN srcFs

RECURSIVE SumEntrySizes(_)
SumEntrySizes(entries) ==
  IF entries = <<>> THEN 0 ELSE Head(entries).size + SumEntrySizes(Tail(entries))

FileEntries == SelectSeq(archive, LAMBDA e : e.type = "file")

\* C18: preamble/stream agreement. For a source that does not change between
\* the probe and the packing, whatever it holds (regular files, directories,
\* symbolic links, other non-regular entries), fileCount is the number of
\* file entries in the archive and totalSize the sum of their sizes; under a
\* directory source both walks take exactly the regular files.
C18_PreambleMatchesArchive ==
  (tphase \in {"packed", "done", "failed"} /\ SourcePath \in DOMAIN srcFs) =>
     /\ meta.fileCount = Len(FileEntries)
     /\ meta.totalSize = SumEntrySizes(FileEntries)
     /\ meta.fileCount =
           Cardinality({p \in DOMAIN srcFs : IsPrefixOf(SourcePath, p) /\ srcFs[p].kind = "file"})

C18_Witness ==
  /\ tphase = "packed"
  /\ meta.isDirectory
  /\ meta.fileCount = 1
  /\ meta.totalSize = 2
  /\ \E p \in DOMAIN srcFs : srcFs[p].kind = "symlink"
  /\ \E p \in DOMAIN srcFs : srcFs[p].kind = "fifo"

\* entry i of the archive is in the destination as the archive has it
EntryInPlace(i) ==
  LET header == archive[i]
      outputPath == join(DestPath, header.name)
  IN  /\ header.type = "file" =>
           /\ outputPath \in DOMAIN destFs
           /\ destFs[outputPath].kind = "file"
           /\ destFs[outputPath].data = header.data
      /\ header.type = "directory" =>
           /\ outputPath \in DOMAIN destFs
           /\ destFs[outputPath].kind = "dir"

\* C32: ordered extraction. The handler takes the entries one at a time in
\* the order of the stream: when it starts on entry k+1, entry k's file body
\* has been written completely (or its directory made) and next() was called
\* for it; while a body is written the file holds the body's bytes in
\* stream order; and when next() is due the destination is what the handler
\* makes of the entry as a whole.
C32_OrderedExtraction ==
  tphase = "packed" =>
    /\ extracted \in 0..Len(archive)
    /\ handler.pc # "idle" => extracted < Len(archive)
    /\ (handler.pc = "parent" /\ extracted >= 1) =>
          /\ destFs = handler.before
          /\ EntryInPlace(extracted)
    /\ handler.pc = "piping" =>
          LET header == archive[extracted + 1]
          IN  destFs[join(DestPath, header.name)].data = Take(header.data, handler.piped)
    /\ (\/ handler.pc = "made"
        \/ handler.pc = "piping" /\ handler.piped = Len(archive[extracted + 1].data)) =>
          destFs = ExtractEntry(handler.before, DestPath, umask, archive[extracted + 1]).fs

C32_Witness ==
  /\ tphase = "packed"
  /\ handler.pc = "parent"
  /\ extracted >= 1
  /\ archive[extracted].type = "file"
  /\ Len(archive[extracted].data) = 2
  /\ archive[extracted + 1].type = "file"

TypeOK ==
  /\ phase \in {"encode", "transit", "decode", "closed"}
  /\ fed \in 0..Len(wire)
  /\ \A i \in 1..Len(wire) : wire[i] \in 0..255
  /\ Len(cmp.out) = Len(cmp.kinds)

(* ---------------------------------------------------------------------- *)
(* Properties of a transfer (checked under TransferSpec).                  *)
(* ---------------------------------------------------------------------- *)
\* the preamble line the sender is to write: JSON.stringify of its metadata
\* with the 'compressed' field, and a newline
ExpectedPreamble ==
  JSONstringify([snd.metadata EXCEPT !.compressed = shouldCompress(srcPath)])
    \o Newline

\* the receiver's stream up to its first newline, and after it
ReceivedNewline == IndexOf(rcv.stream, Newline[1])
ReceivedPreamble == JSONparse(SubSeq(rcv.stream, 1, ReceivedNewline - 1))
ReceivedPayload == Drop(rcv.stream, ReceivedNewline)

\* the peer ended its socket before the last of the sender's bytes
Aborted ==
  /\ rcv.pc # "idle"
  /\ Len(rcv.stream) < Len(sock.bytes)
  /\ rcv.stream = Take(sock.bytes, Len(rcv.stream))

\* the peer is the sender, with the receiver holding the sender's key
HonestTransfer ==
  rcv.pc # "idle" /\ dec.key = snd.key /\ rcv.stream = sock.bytes

\* C24: when the receiver has the sender's key and its socket delivers the
\* sender's bytes completely and in order, in whatever segmentation, the
\* receive pipeline never fails, what reaches the extract stream is a prefix
\* of the archive stream the pack stream produced and, once the pipeline has
\* resolved, all of it; both sessions are then in state 'done' and the
\* metadata the receiver parsed from the preamble is the sender's. Until the
\* receiver is done some step of the transfer is possible.
C24_EndToEnd ==
  HonestTransfer =>
    /\ rcv.pc # "error" /\ rcv.error = "none" /\ dphase # "destroyed"
    /\ IsPrefixOf(decomp.out, cinput)
    /\ rcv.pc # "done" => ENABLED TransferNext
    /\ rcv.pc = "done" =>
          /\ decomp.out = cinput
          /\ snd.state = "done" /\ rcv.state = "done"
          /\ rcv.extractor.transferMetadata =
               [snd.metadata EXCEPT !.compressed = shouldCompress(srcPath)]

C24_Witness ==
  /\ HonestTransfer
  /\ rcv.pc = "done"
  /\ Len(cinput) > 1
  /\ shouldCompress(srcPath)
  /\ rcv.split

\* what a receive run yields as a function of its key and of the bytes after
\* the first newline alone: the decrypt stream fed them in one write, the
\* decompress stream fed the plaintext in one write, and the outcome
RefDecrypt == DecTransform(NewDecryptStream(dec.key), ReceivedPayload)
RefDecompress == DecompressTransform(NewDecompressStream, RefDecrypt.out)
RefExtracted ==
  IF RefDecompress.d.flag = FLAG_COMPRESSED
  THEN ZstdDecoded(RefDecompress.toZstd).out
  ELSE RefDecompress.d.out
RefOutcome ==
  IF RefDecrypt.err # "none" THEN RefDecrypt.err
  ELSE IF RefDecompress.d.err # "none" THEN RefDecompress.d.err
  ELSE "none"

\* C25: the preamble is advisory. With a well-formed preamble of any values
\* (the sender's, or one with totalSize 0 and a 'compressed' field that
\* contradicts the flag byte) the decrypted bytes, the bytes handed to the
\* extract stream and the outcome of the run are those determined by the key
\* and the bytes after the first newline: two runs that differ in the
\* preamble only agree on all three.
C25_PreambleAdvisory ==
  (rcv.pc # "idle" /\ ~Aborted /\ ReceivedPreamble.ok) =>
    /\ IsPrefixOf(dec.out, RefDecrypt.out)
    /\ IsPrefixOf(decomp.out, RefExtracted)
    /\ rcv.error \in {"none", RefOutcome}
    /\ rcv.pc = "error" => rcv.error = RefOutcome /\ RefOutcome # "none"
    /\ rcv.pc = "done" =>
          /\ RefOutcome = "none"
          /\ dec.out = RefDecrypt.out
          /\ decomp.out = RefExtracted

C25_Witness ==
  /\ rcv.pc = "done"
  /\ rcv.extractor.metadataReceived
  /\ rcv.extractor.transferMetadata.totalSize = 0
  /\ rcv.extractor.transferMetadata.compressed
  /\ dec.out # <<>>
  /\ dec.out[1] = FLAG_RAW
  /\ rcv.stream # sock.bytes
  /\ Len(decomp.out) > 1

\* C28: the first bytes the sender writes to the socket are the preamble
\* line, JSON text and newline, complete and before any byte of the encrypt
\* stream; the bytes after it are the encrypt stream's output in order. While
\* nothing has been written the compress and encrypt streams do not exist.
C28_PreambleFirst ==
  /\ snd.pc = "connected" =>
        sock.bytes = <<>> /\ cphase = "idle" /\ written = <<>> /\ cmp.out = <<>>
  /\ snd.pc # "connected" =>
        /\ IsPrefixOf(ExpectedPreamble, sock.bytes)
        /\ \A i \in 1..Len(sock.kinds) :
              sock.kinds[i] = IF i <= Len(ExpectedPreamble) THEN "preamble"
                              ELSE "encrypt"
        /\ Drop(sock.bytes, Len(ExpectedPreamble)) = enc.out
        /\ IndexOf(sock.bytes, Newline[1]) = Len(ExpectedPreamble)

C28_Witness ==
  /\ snd.pc = "done"
  /\ sock.ended
  /\ Len(sock.bytes) > Len(ExpectedPreamble) + NONCE_PREFIX_SIZE
  /\ sock.bytes[Len(ExpectedPreamble) + 1] = Newline[1]

\* C29: in every segmentation of the socket stream the metadata extractor
\* forwards nothing until the first newline has arrived, parses exactly the
\* bytes before that newline as the metadata, and forwards exactly the bytes
\* after it, in order; a line that is no JSON text is an error and nothing is
\* forwarded.
C29_PreambleSplit ==
  rcv.pc # "idle" =>
    IF ReceivedNewline = 0 \/ rcv.got < ReceivedNewline
    THEN /\ ~rcv.extractor.metadataReceived
         /\ rcv.extractor.metadataBuffer = Take(rcv.stream, rcv.got)
         /\ rcv.forwarded = <<>>
    ELSE IF ReceivedPreamble.ok
    THEN /\ rcv.extractor.metadataReceived
         /\ rcv.extractor.transferMetadata = ReceivedPreamble.value
         /\ rcv.forwarded = SubSeq(rcv.stream, ReceivedNewline + 1, rcv.got)
    ELSE /\ ~rcv.extractor.metadataReceived
         /\ rcv.extractor.err = "preamble"
         /\ rcv.forwarded = <<>>

\* the preamble came in several chunks, the newline was the last byte of its
\* chunk, and the payload was forwarded from the chunks after it
C29_Witness ==
  /\ rcv.pc = "done"
  /\ rcv.split
  /\ Len(rcv.extractor.metadataBuffer) = ReceivedNewline
  /\ rcv.forwarded = ReceivedPayload
  /\ rcv.forwarded # <<>>

\* C30: the 'compressed' field of the preamble the sender wrote is true
\* exactly when the first plaintext byte handed to the encrypt stream is
\* FLAG_COMPRESSED and false exactly when it is FLAG_RAW; a sender that is
\* done has handed at least that byte to the encrypt stream.
C30_FlagMatchesPreamble ==
  snd.pc # "connected" =>
    LET sent == JSONparse(SubSeq(sock.bytes, 1, PreambleLength - 1))
    IN  /\ sent.ok
        /\ snd.pc = "done" => written # <<>>
        /\ written # <<>> =>
              /\ sent.value.compressed <=> written[1] = FLAG_COMPRESSED
              /\ ~sent.value.compressed <=> written[1] = FLAG_RAW

C30_Witness ==
  /\ snd.pc = "done"
  /\ written # <<>>
  /\ written[1] = FLAG_COMPRESSED
  /\ JSONparse(SubSeq(sock.bytes, 1, PreambleLength - 1)).value.compressed

\* C38: the percentage a session reports through setProgress is an integer
\* from 0 to 100, on the sender and on the receiver (NULL stands for a
\* quotient that is no finite number).
C38_ProgressInRange ==
  /\ snd.tracker.progress \in 0..100
  /\ rcv.tracker.progress \in 0..100

\* no step makes a counter smaller
CountersGrow ==
  /\ snd'.tracker.transferred >= snd.tracker.transferred
  /\ rcv'.tracker.transferred >= rcv.tracker.transferred

\* the counters of the sender and of a receiver that counts
SenderCounts ==
  /\ snd.tracker.transferred = Len(enc.out)
  /\ snd.tracker.transferred = Len(sock.bytes) - PreambleLength

ReceiverCounts ==
  /\ rcv.tracker.transferred = Len(rcv.forwarded)
  /\ (rcv.pc = "done" /\ ~Aborted) =>
        /\ rcv.tracker.transferred = snd.tracker.transferred
        /\ rcv.tracker.transferred = Len(ReceivedPayload)

C34_PeerAbortIsError ==
  Aborted =>
    /\ rcv.state # "done"
    /\ rcv.pc \in {"done", "error"} => rcv.state = "error"

============================================================================
